---- MODULE Spec2Model ----
(***************************************************************************)
(* Resilience engine of src/services/resilience.py: the circuit-breaker    *)
(* registry, reset_circuit_breaker and resilient_call with its retry loop, *)
(* per-attempt timeout, cache lookup and fallback.                         *)
(*                                                                         *)
(* resilient_call is a coroutine: it is modelled as one action per code    *)
(* segment between two suspension points (await limiter.acquire(), the     *)
(* awaited operation, await cache_set, the backoff sleep, await cache_get),*)
(* so that several calls interleave exactly where asyncio lets them.       *)
(*                                                                         *)
(* The libraries are modelled by their contract:                           *)
(*  - pybreaker: CLOSED counts failures and opens, raising                 *)
(*    CircuitBreakerError, when the counter reaches fail_max; OPEN rejects *)
(*    with CircuitBreakerError until reset_timeout has elapsed since       *)
(*    opened_at, then lets the call through as the HALF_OPEN trial; a      *)
(*    trial success closes the breaker, a trial failure opens it again.    *)
(*    The outcome of a call is recorded by the state object that admitted  *)
(*    it.  current_state only reads the stored state name.                 *)
(*  - tenacity: "with attempt" hands every exception of the attempt to the *)
(*    retry controller; retry_if_exception_type(Exception) retries it      *)
(*    unless stop_after_attempt(retry_attempts) is reached, and            *)
(*    reraise=True then raises the last attempt's own exception.           *)
(*  - asyncio.wait_for: on timeout the caller gets TimeoutError at once;   *)
(*    the abandoned operation may still finish later, or never.            *)
(*  - aiolimiter: acquire() only delays, it never rejects.                 *)
(* Time is kept as what the code compares the clock with: whether          *)
(* reset_timeout seconds have passed since a breaker's opened_at.          *)
(* Inputs of a call that the code reads late (the cache callables, the     *)
(* fallback) are drawn where the code first reads them.                    *)
(* One resilient_call per service name is followed in full.  Of the other  *)
(* coroutines that share the breaker the model keeps what the breaker sees *)
(* of them: an operation that a state object admits and whose outcome it   *)
(* records; of the operations wait_for abandoned, that they are in flight  *)
(* and that the state object that admitted them records their outcome      *)
(* later.  reset_circuit_breaker is taken between two followed calls.      *)
(*                                                                         *)
(* The other subsystems have a variable and a specification each over the  *)
(* same initial state: the sessions and rate counters of cache/session.py  *)
(* (SessSpec, RateSpec, JsSpec, RaceSpec), get_cache and the MemoryCache   *)
(* of cache/redis.py (GcSpec, MemSpec), the error classifier (ClsSpec),    *)
(* the breaker registry on its own (RegSpec), with_fallback of             *)
(* agent/fallbacks.py (WfSpec) and the chat turn of bot/handlers.py with   *)
(* the preference tools (TurnSpec).                                        *)
(***************************************************************************)
EXTENDS Integers, Sequences, FiniteSets, TLC

\* ---------------------------------------------------------------- bounds
MaxRetry == 2         \* largest config.retry_attempts drawn
MaxFailMax == 2       \* largest caller-chosen config.circuit_fail_max drawn

\* settings.resilience_circuit_fail_max of the modelled deployment
SettingsFailMax == MaxFailMax
\* no further failure is recorded beyond this fail counter
MaxCounter == MaxFailMax + 1

\* ------------------------------------------------------ program constants
DefaultResetTimeout == 30  \* settings.resilience_circuit_reset_timeout

ServiceConfigFailMax == 5        \* ServiceConfig.circuit_fail_max default
ServiceConfigResetTimeout == 30  \* ServiceConfig.circuit_reset_timeout default

Names == {"openai", "custom"}     \* service names
TableNames == {"openai"}          \* those with an entry in SERVICE_CONFIGS
Followed == {"openai"}            \* those resilient_call is followed for
Calls == {1}                      \* resilient_call coroutines followed in full
\* abandoned operations in flight: one is followed per coroutine, a
\* further one is taken never to finish
MaxOthers == Cardinality(Calls)

ResetTimeouts == {10}             \* caller-chosen config.circuit_reset_timeout
\* the circuit_reset_timeout of configs handed to get_circuit_breaker directly
RegTimeouts == {10, 20}
OpErrors == {"Connection timeout", "400 Bad Request"}
Fallbacks == {"none", "static", "producer", "producer_raises"}

\* ------------------------------------------------------- cache/session.py
MaxAdds == 25         \* add_message calls made on one session object
MaxHistory == 20      \* "if len(self.messages) > 20"

UserIds == {7, 8}                 \* telegram ids
\* what the store holds at session:{id} when get_session reads it
Contents == {"absent", "empty", "malformed", "not_object", "unknown_field",
             "missing_id", "wrong_types", "valid", "valid_full"}
ValidContents == {"valid", "valid_full"}

MaxCount == 31        \* largest value of a rate counter
MaxRequestsSet == {1, 2, 30}      \* max_requests arguments, 30 the default

MaxMarkers == 2       \* markers occurring together in one error
MaxResets == 2        \* reset_cache calls that replace the instance
MaxTurns == 2         \* chat turns of the user
MaxToolCalls == 2     \* preference tool calls the agent makes in one turn
MaxTime == 2          \* seconds that pass on the MemoryCache's clock
MaxIncr == 1          \* largest counter of the MemoryCache
MaxClock == 6         \* readings of the clock while a session is saved and read
MaxEdits == 2         \* changes made to a session between read and save

\* cache/redis.py, MemoryCache
Epoch == 1                        \* time.time() at the first call
MemKeys == {"session:7", "rate:7"}
MemValues == {"a", "b"}
CounterKeys == {"rate:7"}          \* the keys incr is called with
MemTtls == {0, 1, 2}              \* ttl_seconds arguments
Procs == {1, 2}       \* coroutines that call get_cache

VARIABLES
    brk,        \* _circuit_breakers: name -> breaker (NullBreaker = no entry)
    call,       \* the resilient_call coroutines
    others,     \* operations abandoned by wait_for and still in flight:
                \* number per breaker and admitting state
    streak,     \* history: per name, the consecutive invocations that failed
                \* (raised or timed out) since the last one that returned
    adm,        \* history: when the last step was a get_circuit_breaker or
                \* reset_circuit_breaker call, its arguments, what it
                \* returned and the registry before it
    session,    \* cache/session.py: the ConversationSession a handler holds
    rl,         \* the store's counters rate:{id} and the check_rate_limit
                \* call in progress
    gc,         \* cache/redis.py: _cache_instance, _cache_lock and the
                \* get_cache calls in progress
    cls,        \* the error handed to categorize_error / should_retry and
                \* what they returned
    wf,         \* agent/fallbacks.py: the with_fallback call in progress
    mem,        \* cache/redis.py: the _data of a MemoryCache and the last
                \* operation made on it
    js,         \* cache/session.py: a session being saved and read back
    turn,       \* bot/handlers.py: the chat turn in progress for one user
    race        \* cache/session.py: concurrent check_rate_limit calls

\* the state of services/resilience.py
resVars == <<brk, call, others, streak, adm>>
\* the state of cache/session.py and cache/redis.py
cacheVars == <<session, rl, gc>>

\* the state of agent/fallbacks.py, of a MemoryCache, and of the callers of
\* the session manager
extVars == <<wf, mem, js, turn, race>>

vars == <<brk, call, others, streak, adm, session, rl, gc, cls, wf, mem, js, turn, race>>

\* ------------------------------------------------------- pybreaker object
\* elapsed: utcnow() >= opened_at + reset_timeout
NullBreaker == [state |-> "absent", counter |-> 0, elapsed |-> FALSE,
                fail_max |-> 0, reset_timeout |-> 0]

\* pybreaker.CircuitBreaker(fail_max=..., reset_timeout=..., name=...)
NewBreaker(fm, rt) == [state |-> "closed", counter |-> 0, elapsed |-> FALSE,
                       fail_max |-> fm, reset_timeout |-> rt]

\* CircuitBreaker.open(): opened_at = utcnow(), state = "open"
BreakerOpen(b) == [b EXCEPT !.state = "open", !.elapsed = FALSE]

\* CircuitBreaker.close(): state = "closed", the new closed state resets the
\* counter
BreakerClose(b) == [b EXCEPT !.state = "closed", !.counter = 0, !.elapsed = FALSE]

\* CircuitBreaker.half_open()
BreakerHalfOpen(b) == [b EXCEPT !.state = "half-open", !.elapsed = FALSE]

\* the OPEN state still rejects: utcnow() < opened_at + reset_timeout
StillOpen(b) == ~b.elapsed

\* What breaker.call_async does before the operation runs, by current state:
\* "reject" = CircuitBreakerError without running the operation, otherwise
\* the state object that admits the call.
Admit(b) ==
    IF b.state = "open"
    THEN (IF StillOpen(b) THEN "reject" ELSE "half-open")
    ELSE b.state

\* The breaker after the admitting state object (kind k) records a failure:
\* the counter is incremented; the trial state opens the breaker, the closed
\* state opens it when the counter has reached fail_max.
HandleError(b, k) ==
    LET b1 == [b EXCEPT !.counter = @ + 1]
    IN  IF k = "half-open" \/ b1.counter >= b1.fail_max
        THEN BreakerOpen(b1)
        ELSE b1

\* The exception the attempt sees when the operation raised exc: when the
\* failure opens the breaker, CircuitBreakerError replaces exc.
RaisedBy(b, k, exc) ==
    IF k = "half-open" \/ b.counter + 1 >= b.fail_max THEN "cbe" ELSE exc

\* The breaker after the admitting state object records a success.
HandleSuccess(b, k) ==
    IF k = "half-open" THEN BreakerClose(b) ELSE [b EXCEPT !.counter = 0]

\* ------------------------------------------------------------- registry
\* get_circuit_state(name): CircuitState of the registered breaker
GetCircuitState(b, n) ==
    IF b[n].state = "absent" THEN "CLOSED"
    ELSE IF b[n].state = "closed" THEN "CLOSED"
    ELSE IF b[n].state = "open" THEN "OPEN"
    ELSE "HALF_OPEN"

\* SERVICE_CONFIGS[name], built by _get_default_configs from the settings:
\* the thresholds reset_circuit_breaker uses
TableConfig(n) == [circuit_fail_max |-> SettingsFailMax,
                   circuit_reset_timeout |-> DefaultResetTimeout]

\* "SERVICE_CONFIGS.get(service_name, ServiceConfig(name=service_name))"
ResetConfig(n) ==
    IF n \in TableNames THEN TableConfig(n)
    ELSE [circuit_fail_max |-> ServiceConfigFailMax,
          circuit_reset_timeout |-> ServiceConfigResetTimeout]

\* variant: the caller's config replaces the registered breaker
GetCircuitBreaker_Overwrites(b, n, fm, rt) == [b EXCEPT ![n] = NewBreaker(fm, rt)]

\* get_circuit_breaker(config): the registry after it, for a config with
\* name n, circuit_fail_max fm and circuit_reset_timeout rt
GetCircuitBreaker(b, n, fm, rt) ==
    IF b[n].state = "absent" THEN [b EXCEPT ![n] = NewBreaker(fm, rt)] ELSE b

\* variant: a missing breaker is created and true returned
ResetBreaker_Creates(b, n) ==
    LET cfg == ResetConfig(n)
    IN  [reg |-> [b EXCEPT ![n] = NewBreaker(cfg.circuit_fail_max,
                                             cfg.circuit_reset_timeout)],
         returned |-> TRUE]

\* reset_circuit_breaker(service_name): the registry after it and the value
\* returned
ResetBreaker(b, n) ==
    LET cfg == ResetConfig(n)
    IN  IF b[n].state # "absent"
        THEN [reg |-> [b EXCEPT ![n] = NewBreaker(cfg.circuit_fail_max,
                                                  cfg.circuit_reset_timeout)],
              returned |-> TRUE]
        ELSE [reg |-> b, returned |-> FALSE]

\* ------------------------------------------------------ error classifier
CategorizeError(exc) ==
    CASE exc = "400 Bad Request" -> "client_error"
      [] exc = "Connection timeout" -> "transient"
      [] exc = "timeout" -> "transient"      \* TimeoutError: type name matches
      [] OTHER -> "unknown"

\* str(e) of the exceptions an attempt can end with
ErrStr(exc) ==
    CASE exc = "timeout" -> "Call timed out"
      [] OTHER -> exc

\* --------------------------------------------------------- ResilienceResult
NewResult(cs) == [success |-> FALSE, value |-> "none", error |-> "none",
                  error_category |-> "none", attempts |-> 1,
                  from_cache |-> FALSE, from_fallback |-> FALSE,
                  circuit_state |-> cs]

\* variant: the exception of a raising producer leaves _apply_fallback
ApplyFallback_Propagates(res, fb) ==
    CASE fb = "none" ->
            [res |-> res, exc |-> "none", produced |-> 0]
      [] fb = "static" ->
            [res |-> [res EXCEPT !.value = "fallback", !.success = TRUE,
                                 !.from_fallback = TRUE],
             exc |-> "none", produced |-> 0]
      [] fb = "producer" ->
            [res |-> [res EXCEPT !.value = "produced", !.success = TRUE,
                                 !.from_fallback = TRUE],
             exc |-> "none", produced |-> 1]
      [] OTHER ->
            [res |-> res, exc |-> "fallback failed", produced |-> 1]

\* variant: no callable() test, the producer itself becomes the value
ApplyFallback_NotCalled(res, fb) ==
    CASE fb = "none" ->
            [res |-> res, exc |-> "none", produced |-> 0]
      [] fb = "static" ->
            [res |-> [res EXCEPT !.value = "fallback", !.success = TRUE,
                                 !.from_fallback = TRUE],
             exc |-> "none", produced |-> 0]
      [] OTHER ->
            [res |-> [res EXCEPT !.value = "callable", !.success = TRUE,
                                 !.from_fallback = TRUE],
             exc |-> "none", produced |-> 0]

\* variant: from_fallback is not set
ApplyFallback_NoFlag(res, fb) ==
    CASE fb = "none" ->
            [res |-> res, exc |-> "none", produced |-> 0]
      [] fb = "static" ->
            [res |-> [res EXCEPT !.value = "fallback", !.success = TRUE],
             exc |-> "none", produced |-> 0]
      [] fb = "producer" ->
            [res |-> [res EXCEPT !.value = "produced", !.success = TRUE],
             exc |-> "none", produced |-> 1]
      [] OTHER ->
            [res |-> [res EXCEPT !.error = "fallback failed"],
             exc |-> "none", produced |-> 1]

\* _apply_fallback(result, fallback, service_name): the function's outcome
\* is the returned result, or the exception that leaves it (exc), and the
\* number of times the producer was invoked
ApplyFallback(res, fb) ==
    CASE fb = "none" ->
            [res |-> res, exc |-> "none", produced |-> 0]
      [] fb = "static" ->
            [res |-> [res EXCEPT !.value = "fallback", !.success = TRUE,
                                 !.from_fallback = TRUE],
             exc |-> "none", produced |-> 0]
      [] fb = "producer" ->
            [res |-> [res EXCEPT !.value = "produced", !.success = TRUE,
                                 !.from_fallback = TRUE],
             exc |-> "none", produced |-> 1]
      [] OTHER ->
            [res |-> [res EXCEPT !.error = "fallback failed"],
             exc |-> "none", produced |-> 1]

\* the except clauses after the retry loop, for the exception exc that left it
ExceptClause(res, exc, attempts) ==
    IF exc = "cbe"
    THEN [res EXCEPT !.circuit_state = "OPEN",
                     !.error = "Service temporarily unavailable",
                     !.error_category = "transient"]
    ELSE [res EXCEPT !.error = ErrStr(exc),
                     !.error_category = CategorizeError(exc),
                     !.attempts = attempts]

\* variant: a hit is recorded but the code goes on to the fallback
CacheLookup_FallsThrough(res, got) ==
    IF got = "hit"
    THEN [res |-> [res EXCEPT !.success = TRUE, !.value = "cached",
                              !.from_cache = TRUE],
          returns |-> FALSE, exc |-> "none"]
    ELSE [res |-> res, returns |-> FALSE, exc |-> "none"]

\* the cache lookup "cached = await cache_get(cache_key)" inside try/except:
\* the result after it, whether resilient_call returns it at once, and the
\* exception that leaves the block
CacheLookup(res, got) ==
    IF got = "hit"
    THEN [res |-> [res EXCEPT !.success = TRUE, !.value = "cached",
                              !.from_cache = TRUE],
          returns |-> TRUE, exc |-> "none"]
    ELSE [res |-> res, returns |-> FALSE, exc |-> "none"]

\* variant: result.attempts is not updated on success
SuccessBranch_NoAttempts(res, set, attempts, cs) ==
    [res |-> [res EXCEPT !.success = TRUE, !.value = "live", !.circuit_state = cs],
     exc |-> "none"]

\* the success branch of an attempt, after the optional cache_set (set is
\* "off", "ok" or "raise"): the result and the exception that leaves it
SuccessBranch(res, set, attempts, cs) ==
    [res |-> [res EXCEPT !.success = TRUE, !.value = "live",
                         !.attempts = attempts, !.circuit_state = cs],
     exc |-> "none"]

\* variant: the wrapper hands back result.value whatever result.success is
Wrapper_NoRaise(res) == [returns |-> res.value, raises |-> "none", message |-> "none"]

\* the wrapper of the resilient decorator after "await resilient_call(...)":
\* what it returns, or the exception it raises with its message
Wrapper(res) ==
    IF res.success
    THEN [returns |-> res.value, raises |-> "none", message |-> "none"]
    ELSE [returns |-> "none", raises |-> "RuntimeError",
          message |-> IF res.error # "none" THEN res.error
                      ELSE "Resilient call failed"]

\* the cache_set, cache_key and config.cache_ttl_seconds a call is made
\* with: all supplied, or one of them missing
CacheTtls == {0, 300}
NoCacheInput == [cache_set |-> FALSE, cache_key |-> FALSE, ttl |-> 0]
CacheInputs ==
    {i \in [cache_set : BOOLEAN, cache_key : BOOLEAN, ttl : CacheTtls] :
        \/ i.cache_set /\ i.cache_key
        \/ (i.cache_set \/ i.cache_key) /\ i.ttl > 0}

\* variant: the ttl is not looked at
CacheSetWanted_IgnoresTtl(i) == i.cache_set /\ i.cache_key

\* "if cache_set and cache_key and config.cache_ttl_seconds > 0:"
CacheSetWanted(i) == i.cache_set /\ i.cache_key /\ i.ttl > 0

\* tenacity: retry=retry_if_exception_type(Exception)
RetryPredicate(exc) == TRUE

\* variant: one attempt too many
StopAfterAttempt_OffByOne(attempt, n) == attempt > n

\* tenacity: stop=stop_after_attempt(config.retry_attempts)
StopAfterAttempt(attempt, n) == attempt >= n

\* -------------------------------------------------------------- coroutines
Kinds == {"closed", "half-open"}

IdleCall == [pc |-> "idle", name |-> "-", retry_attempts |-> 0,
             attempts |-> 0, kind |-> "-",
             result |-> NewResult("CLOSED"), escaped |-> "none",
             \* inputs, once drawn
             fb |-> "none", cache |-> "off", cacheSet |-> "off",
             setInput |-> NoCacheInput,
             \* the exception tenacity is sleeping on before the next attempt
             lastExc |-> "none",
             \* history of the call
             entryState |-> "-", entryElapsed |-> FALSE, tripped |-> FALSE,
             entryCounter |-> 0, entryFailMax |-> 0, alone |-> TRUE,
             afterReset |-> FALSE,
             acquires |-> 0, waits |-> 0, opCalls |-> 0, raised |-> 0,
             timeouts |-> 0, rejected |-> 0, firstCbe |-> 0, produced |-> 0]

InFlight(r) == r.pc \notin {"idle", "done"}

OthersCount(oth) == LET RECURSIVE Sum(_)
                        Sum(S) == IF S = {} THEN 0
                                  ELSE LET x == CHOOSE y \in S : TRUE
                                       IN oth[x] + Sum(S \ {x})
                    IN Sum(Names \X Kinds)

NoStreak == [n |-> 0, elapsed |-> FALSE]

\* history: an invocation for n failed / returned; the count stops at
\* fail_max, and elapsed tells whether reset_timeout seconds have passed
\* since the count reached it
StreakFail(st, b, n) ==
    IF st[n].n >= b[n].fail_max THEN st
    ELSE [st EXCEPT ![n] = [n |-> @.n + 1, elapsed |-> FALSE]]
StreakOk(st, n) == [st EXCEPT ![n] = NoStreak]

\* history: something else than call c recorded an outcome on the breaker of n
Disturbed(cl, n) ==
    [d \in Calls |-> IF InFlight(cl[d]) /\ cl[d].name = n
                     THEN [cl[d] EXCEPT !.alone = FALSE] ELSE cl[d]]

\* the last step was no call of the registry functions
NoAdmin == [op |-> "none", name |-> "-", fm |-> 0, rt |-> 0, returned |-> FALSE,
            before |-> [n \in Names |-> NullBreaker]]

\* the module globals of services/resilience.py after import
ResInit ==
    /\ brk = [n \in Names |-> NullBreaker]
    /\ call = [c \in Calls |-> IdleCall]
    /\ others = [x \in Names \X Kinds |-> 0]
    /\ streak = [n \in Names |-> NoStreak]
    /\ adm = NoAdmin

\* no handler holds a session
NoSession == [pc |-> "none", id |-> 0, data |-> "absent",
              obj |-> [telegram_id |-> 0, messages |-> <<>>, message_count |-> 0,
                       well_typed |-> TRUE],
              raised |-> "none", added |-> 0, writes |-> 0]

SessInit == session = NoSession

\* no check_rate_limit call made yet
NoCheck == [id |-> 0, max |-> 0, count |-> 0, allowed |-> TRUE,
            incrValue |-> 0, failed |-> FALSE, expireCalled |-> FALSE,
            wasDue |-> FALSE]

\* backend: the CacheClient of the SessionManager, once created;
\* count: the counter at rate:{id}, 0 when there is none;
\* ttl: the key (Redis) or its CacheEntry (MemoryCache) has an expiry
\*      that has not been reached;
\* due: history, the window since the call whose increment returned 1
RateInit ==
    rl = [backend |-> "unset",
          count |-> [i \in UserIds |-> 0],
          ttl |-> [i \in UserIds |-> FALSE],
          due |-> [i \in UserIds |-> "no"],
          pc |-> "idle", cur |-> NoCheck]

\* instance: _cache_instance, 0 for None, else the number of the object;
\* kind: what the installed object is; lock: the holder of _cache_lock;
\* up: the primary store answers ping;
\* history: installs = assignments to _cache_instance, returned = the
\* objects get_cache returned, both since the last reset_cache
GcInit ==
    gc = [configured |-> FALSE, use_memory_cache |-> FALSE, up |-> TRUE,
          instance |-> 0, kind |-> "none", lock |-> 0, made |-> 0,
          resetting |-> FALSE, resets |-> 0,
          procs |-> [p \in Procs |-> [pc |-> "idle", ret |-> 0, sawUp |-> FALSE]],
          installs |-> 0, returned |-> {}]

\* no error classified yet
NoError == [done |-> FALSE, msg |-> {}, type |-> {}, category |-> "none",
            retry |-> FALSE]

ClsInit == cls = NoError

\* no with_fallback call made yet
NoWf == [pc |-> "idle", default |-> "-", raised |-> FALSE, msg |-> {},
         type |-> {}, result |-> <<"none">>, escaped |-> "none"]

WfInit == wf = NoWf

\* cache/redis.py, MemoryCache: no CacheEntry at a key
NoEntry == [present |-> FALSE, value |-> "-", has_expiry |-> FALSE,
            expires_at |-> 0]

\* no operation made on the MemoryCache yet
NoMemOp == [op |-> "none", key |-> "-", value |-> "-", ok |-> FALSE, n |-> 0,
            before |-> <<>>, at |-> 0]

\* MemoryCache.__init__; now is time.time(), in seconds since the first call
MemInit ==
    mem = [now |-> Epoch,
           data |-> [k \in MemKeys |-> NoEntry],
           counters |-> [k \in MemKeys |-> 0],
           last |-> NoMemOp]

\* cache/session.py: Python values, as json.dumps sees them
PNone == [t |-> "None", s |-> "", n |-> 0, items |-> <<>>, keys |-> <<>>]
PStr(x) == [t |-> "str", s |-> x, n |-> 0, items |-> <<>>, keys |-> <<>>]
PInt(k) == [t |-> "int", s |-> "", n |-> k, items |-> <<>>, keys |-> <<>>]
PList(q) == [t |-> "list", s |-> "", n |-> 0, items |-> q, keys |-> <<>>]
PDict(ks, vs) == [t |-> "dict", s |-> "", n |-> 0, items |-> vs, keys |-> ks]
\* datetime.now(UTC).isoformat() at the k-th reading of the clock
PTime(k) == [t |-> "str", s |-> "isoformat", n |-> k, items |-> <<>>, keys |-> <<>>]

\* ConversationSession(telegram_id=id), created at clock reading k
Session(id, k) ==
    [telegram_id |-> PInt(id), messages |-> PList(<<>>),
     first_name |-> PNone, username |-> PNone, location |-> PNone,
     fitness_goals |-> PList(<<>>), preferred_workout_types |-> PList(<<>>),
     style_profile |-> PDict(<<>>, <<>>), wardrobe |-> PList(<<>>),
     conversation_summary |-> PNone,
     created_at |-> PTime(k), updated_at |-> PTime(k), message_count |-> PInt(0)]

SessionFields == DOMAIN Session(0, 0)

\* the user whose session is followed
JsUser == CHOOSE i \in UserIds : TRUE

\* s: the session a handler holds; store: what the store holds at
\* session:{id} (json: the text, as its JSON value); now: the clock;
\* history: saved = the session as the last save that succeeded stamped it,
\* fresh = no write, delete or expiry since; read = the last step was a
\* get_session, got = what it returned, readOk = the store answered it
JsInit ==
    js = [pc |-> "none", s |-> PNone, edits |-> 0,
          store |-> [present |-> FALSE, json |-> PNone],
          now |-> 1, saved |-> PNone, fresh |-> FALSE,
          got |-> PNone, read |-> FALSE, readOk |-> TRUE]

\* bot/handlers.py: the values of one user's chat turns
Locations == {"Austin", "Boston"}
GoalSet == {"strength", "mobility"}
WorkoutSet == {"yoga", "pilates"}
PrefTools == {"update_user_location", "update_fitness_goals",
              "update_workout_preferences"}

\* the fields of a ConversationSession a turn reads or writes;
\* location "-" is None
EmptySession == [location |-> "-", fitness_goals |-> {},
               preferred_workout_types |-> {}, message_count |-> 0]

\* what the tools of the turn have saved
NoSaved == [location |-> "-", fitness_goals |-> {},
            preferred_workout_types |-> {}]

NoTool == [name |-> "-", arg |-> {}, session |-> EmptySession]

TurnInit ==
    turn = [pc |-> "idle", store |-> EmptySession, stored |-> FALSE,
            session |-> EmptySession, tool |-> NoTool, saved |-> NoSaved,
            tools |-> 0, turns |-> 0, final |-> FALSE]

\* cache/session.py: no check_rate_limit call in progress
IdleCheck == [pc |-> "idle", v |-> 0]

\* count: the counter at rate:{id} of one user, 0 when there is none;
\* ttl: the key (Redis) or its CacheEntry (MemoryCache) carries an expiry;
\* procs: the coroutines inside check_rate_limit for that user;
\* history, since the counter was created: sets = expire calls that set the
\* expiry, failed = an expire call failed, overlap = a call incremented
\* the counter between the increment and the expire of the first call
RaceInit ==
    race = [backend |-> "unset", count |-> 0, ttl |-> FALSE,
            procs |-> [p \in Procs |-> IdleCheck],
            sets |-> 0, failed |-> FALSE, overlap |-> FALSE]

Init ==
    /\ ResInit /\ SessInit /\ RateInit /\ GcInit /\ ClsInit
    /\ WfInit /\ MemInit /\ JsInit /\ TurnInit /\ RaceInit

\* resilient_call returns o.res, or o.exc leaves it
Finish(rec, o) ==
    [rec EXCEPT !.pc = "done", !.result = o.res, !.escaped = o.exc]

\* "return _apply_fallback(result, fallback, config.name)"
FinishFallback(rec, res) ==
    LET o == ApplyFallback(res, rec.fb)
    IN  [Finish(rec, o) EXCEPT !.produced = o.produced]

\* the code after the retry loop, and the open-circuit branch at entry:
\* "if cache_get and cache_key:" then the lookup, else the fallback, for
\* every fallback argument of the call
CacheStage(rec, res) ==
    {[rec EXCEPT !.pc = "cache_get", !.result = res]}
    \cup {FinishFallback([rec EXCEPT !.fb = fb], res) : fb \in Fallbacks}

\* the attempt ended with exc: tenacity retries, or the loop is left
AttemptFailed(rec, exc) ==
    LET r1 == IF exc = "cbe" /\ rec.firstCbe = 0
              THEN [rec EXCEPT !.firstCbe = rec.attempts] ELSE rec
    IN  IF RetryPredicate(exc) /\ ~StopAfterAttempt(r1.attempts, r1.retry_attempts)
        THEN {[r1 EXCEPT !.pc = "sleep", !.lastExc = exc]}
        ELSE CacheStage(r1, ExceptClause(r1.result, exc, r1.attempts))

\* a finished call holds its result until the caller takes it (Return); the
\* model does not move on before, so that the history kept in a finished
\* call describes the state it returned in
Quiet == \A c \in Calls : call[c].pc # "done"

\* "if breaker.current_state == "open":" at the entry of resilient_call
OpenAtEntry(b) == b.state = "open"

\* ----------------------------------------------------------------- actions
\* resilient_call(func, config, ...) up to its first suspension point:
\* get_circuit_breaker, get_rate_limiter, the result object, the open check,
\* and the first "attempts += 1" of the loop.
Start(c, n, fm, rt, N) ==
    /\ Quiet
    /\ call[c].pc = "idle"
    /\ \A d \in Calls : ~(InFlight(call[d]) /\ call[d].name = n)
    /\ LET b1   == GetCircuitBreaker(brk, n, fm, rt)
           res0 == NewResult(GetCircuitState(b1, n))
           rec0 == [IdleCall EXCEPT !.name = n, !.retry_attempts = N,
                                    !.result = res0,
                                    !.entryState = b1[n].state,
                                    !.entryElapsed = b1[n].elapsed,
                                    !.entryCounter = b1[n].counter,
                                    !.entryFailMax = b1[n].fail_max,
                                    !.afterReset = /\ adm.op = "reset"
                                                   /\ adm.name = n
                                                   /\ adm.returned,
                                    !.tripped = /\ streak[n].n >= b1[n].fail_max
                                                /\ ~streak[n].elapsed]
       IN  /\ brk' = b1
           /\ IF OpenAtEntry(b1[n])
              THEN \E r \in CacheStage(rec0, [res0 EXCEPT !.circuit_state = "OPEN"]) :
                       call' = [call EXCEPT ![c] = r]
              ELSE call' = [call EXCEPT ![c] = [rec0 EXCEPT !.pc = "acquire",
                                                            !.attempts = 1]]
    /\ UNCHANGED <<others, streak>>
    /\ adm' = NoAdmin
    /\ UNCHANGED <<cacheVars, cls, extVars>>

\* "await limiter.acquire()" returns and breaker.call_async(func, ...) starts:
\* the breaker rejects the attempt or admits it and the operation is invoked.
Acquire(c) ==
    /\ call[c].pc = "acquire"
    /\ LET rec == [call[c] EXCEPT !.acquires = @ + 1]
           n   == rec.name
           a   == Admit(brk[n])
       IN  IF a = "reject"
           THEN /\ \E r \in AttemptFailed([rec EXCEPT !.rejected = @ + 1], "cbe") :
                       call' = [call EXCEPT ![c] = r]
                /\ UNCHANGED brk
           ELSE /\ brk' = [brk EXCEPT ![n] = IF @.state = "open"
                                             THEN BreakerHalfOpen(@) ELSE @]
                /\ call' = [call EXCEPT ![c] = [rec EXCEPT !.pc = "op", !.kind = a,
                                                           !.opCalls = @ + 1]]
    /\ UNCHANGED <<others, streak>>
    /\ adm' = NoAdmin
    /\ UNCHANGED <<cacheVars, cls, extVars>>

\* the operation raises within the timeout: the breaker records the failure
OpRaises(c, e) ==
    /\ call[c].pc = "op"
    /\ brk[call[c].name].counter < MaxCounter
    /\ LET rec == [call[c] EXCEPT !.raised = @ + 1]
           n   == rec.name
       IN  /\ brk' = [brk EXCEPT ![n] = HandleError(@, rec.kind)]
           /\ \E r \in AttemptFailed(rec, RaisedBy(brk[n], rec.kind, e)) :
                  call' = [call EXCEPT ![c] = r]
           /\ streak' = StreakFail(streak, brk, n)
    /\ UNCHANGED others
    /\ adm' = NoAdmin
    /\ UNCHANGED <<cacheVars, cls, extVars>>

\* the operation returns within the timeout: the breaker records the success;
\* with cache_set, cache_key and cache_ttl_seconds > 0 the call goes on to
\* "await cache_set(...)", otherwise it returns the result.
OpReturns(c) ==
    /\ call[c].pc = "op"
    /\ LET n   == call[c].name
           b1  == [brk EXCEPT ![n] = HandleSuccess(@, call[c].kind)]
       IN  /\ brk' = b1
           /\ \E i \in CacheInputs :
                 LET rec == [call[c] EXCEPT !.setInput = i]
                 IN  call' = [call EXCEPT ![c] =
                        IF CacheSetWanted(i)
                        THEN [rec EXCEPT !.pc = "cache_set"]
                        ELSE Finish(rec, SuccessBranch(rec.result, "off", rec.attempts,
                                                       GetCircuitState(b1, n)))]
           /\ streak' = StreakOk(streak, n)
    /\ UNCHANGED others
    /\ adm' = NoAdmin
    /\ UNCHANGED <<cacheVars, cls, extVars>>

\* asyncio.wait_for gives up after config.timeout_seconds: the attempt ends
\* with TimeoutError; the breaker has recorded nothing; the operation is
\* abandoned and stays in flight.
OpTimesOut(c) ==
    /\ call[c].pc = "op"
    /\ LET rec == [call[c] EXCEPT !.timeouts = @ + 1]
           x   == <<rec.name, rec.kind>>
       IN  /\ others' = IF OthersCount(others) < MaxOthers
                        THEN [others EXCEPT ![x] = @ + 1] ELSE others
           /\ \E r \in AttemptFailed(rec, "timeout") : call' = [call EXCEPT ![c] = r]
           /\ streak' = StreakFail(streak, brk, rec.name)
    /\ UNCHANGED brk
    /\ adm' = NoAdmin
    /\ UNCHANGED <<cacheVars, cls, extVars>>

\* "await cache_set(cache_key, value)" returns or raises (caught), then the
\* success result is returned
CacheSetDone(c, set) ==
    /\ call[c].pc = "cache_set"
    /\ LET rec == [call[c] EXCEPT !.cacheSet = set]
           o   == SuccessBranch(rec.result, set, rec.attempts,
                                GetCircuitState(brk, rec.name))
       IN  call' = [call EXCEPT ![c] = Finish(rec, o)]
    /\ UNCHANGED <<brk, others, streak>>
    /\ adm' = NoAdmin
    /\ UNCHANGED <<cacheVars, cls, extVars>>

\* the backoff sleep between two attempts ends; the next attempt starts
\* with "attempts += 1" and suspends in limiter.acquire()
Backoff(c) ==
    /\ call[c].pc = "sleep"
    /\ call' = [call EXCEPT ![c] = [@ EXCEPT !.pc = "acquire", !.attempts = @ + 1,
                                             !.waits = @ + 1,
                                             !.lastExc = "none"]]
    /\ UNCHANGED <<brk, others, streak>>
    /\ adm' = NoAdmin
    /\ UNCHANGED <<cacheVars, cls, extVars>>

\* "await cache_get(cache_key)" returns a value ("hit"), None ("miss") or
\* raises; without a hit the fallback is applied; fb is the fallback
\* argument of the call, read here for the first time
CacheGetDone(c, got, fb) ==
    /\ call[c].pc = "cache_get"
    /\ LET rec == [call[c] EXCEPT !.cache = got, !.fb = fb]
           o   == CacheLookup(rec.result, got)
       IN  call' = [call EXCEPT ![c] = IF o.exc # "none" \/ o.returns
                                       THEN Finish(rec, o)
                                       ELSE FinishFallback(rec, o.res)]
    /\ UNCHANGED <<brk, others, streak>>
    /\ adm' = NoAdmin
    /\ UNCHANGED <<cacheVars, cls, extVars>>

\* the caller takes the result of a finished call
Return(c) ==
    /\ call[c].pc = "done"
    /\ call' = [call EXCEPT ![c] = IdleCall]
    /\ UNCHANGED <<brk, others, streak>>
    /\ adm' = NoAdmin
    /\ UNCHANGED <<cacheVars, cls, extVars>>

\* the breaker of n records the outcome of an operation that its state
\* object of kind k admitted
Record(n, k, ok) ==
    /\ ok \/ brk[n].counter < MaxCounter
    /\ brk' = [brk EXCEPT ![n] = IF ok THEN HandleSuccess(@, k) ELSE HandleError(@, k)]
    /\ call' = Disturbed(call, n)

\* another coroutine that entered resilient_call while the breaker was not
\* open reaches breaker.call_async: its operation is admitted, runs, and
\* the admitting state object records its outcome
OtherCall(n, ok) ==
    /\ Quiet
    /\ brk[n].state # "absent"
    /\ Admit(brk[n]) # "reject"
    /\ Record(n, Admit(brk[n]), ok)
    /\ streak' = IF ok THEN StreakOk(streak, n) ELSE StreakFail(streak, brk, n)
    /\ UNCHANGED others
    /\ adm' = NoAdmin
    /\ UNCHANGED <<cacheVars, cls, extVars>>

\* an abandoned operation finishes: the state object that admitted it
\* records the outcome on its breaker
OtherDone(n, k, ok) ==
    /\ Quiet
    /\ others[<<n, k>>] > 0
    /\ Record(n, k, ok)
    /\ others' = [others EXCEPT ![<<n, k>>] = @ - 1]
    /\ UNCHANGED streak
    /\ adm' = NoAdmin
    /\ UNCHANGED <<cacheVars, cls, extVars>>

\* reset_circuit_breaker(service_name): the registry entry of a registered
\* name is replaced by a new breaker; what the replaced breaker still
\* records is never read
ResetCircuitBreaker(n) ==
    /\ Quiet
    /\ \A d \in Calls : ~(InFlight(call[d]) /\ call[d].name = n)
    /\ LET o == ResetBreaker(brk, n)
       IN  /\ brk' = o.reg
           /\ adm' = [NoAdmin EXCEPT !.op = "reset", !.name = n,
                                     !.returned = o.returned, !.before = brk]
           /\ others' = IF o.returned
                        THEN [x \in Names \X Kinds |->
                                 IF x[1] = n THEN 0 ELSE others[x]]
                        ELSE others
           /\ streak' = IF o.returned THEN [streak EXCEPT ![n] = NoStreak]
                        ELSE streak
    /\ UNCHANGED call
    /\ UNCHANGED <<cacheVars, cls, extVars>>

\* get_circuit_breaker(config) called on its own, with a config of name n
UseConfig(n, fm, rt) ==
    /\ Quiet
    /\ brk' = GetCircuitBreaker(brk, n, fm, rt)
    /\ adm' = [NoAdmin EXCEPT !.op = "get", !.name = n, !.fm = fm, !.rt = rt,
                              !.returned = TRUE, !.before = brk]
    /\ UNCHANGED <<call, others, streak>>
    /\ UNCHANGED <<cacheVars, cls, extVars>>

\* time passes: circuit_reset_timeout seconds have gone by since the
\* consecutive failed invocations for n reached fail_max, and (with both)
\* since the opened_at of its breaker
TimeoutElapses(n, both) ==
    /\ Quiet
    /\ \/ brk[n].state = "open" /\ ~brk[n].elapsed /\ both
       \/ brk[n].state # "absent" /\ streak[n].n >= brk[n].fail_max /\ ~streak[n].elapsed
    /\ streak' = [streak EXCEPT ![n].elapsed = (@ \/ streak[n].n >= brk[n].fail_max)]
    /\ brk' = [brk EXCEPT ![n].elapsed = (@ \/ (both /\ brk[n].state = "open"))]
    /\ UNCHANGED <<call, others>>
    /\ adm' = NoAdmin
    /\ UNCHANGED <<cacheVars, cls, extVars>>

\* the thresholds a caller's config carries: only the first config used for
\* a name reaches the breaker
FirstConfigs(n) ==
    IF brk[n].state = "absent" THEN (1 .. MaxFailMax) \X ResetTimeouts ELSE {<<1, 10>>}

Next ==
    \/ \E c \in Calls, n \in Followed, N \in 1 .. MaxRetry :
          \E cfg \in FirstConfigs(n) : Start(c, n, cfg[1], cfg[2], N)
    \/ \E c \in Calls : Acquire(c)
    \/ \E c \in Calls, e \in OpErrors : OpRaises(c, e)
    \/ \E c \in Calls : OpReturns(c)
    \/ \E c \in Calls : OpTimesOut(c)
    \/ \E c \in Calls, set \in {"ok", "raise"} : CacheSetDone(c, set)
    \/ \E c \in Calls : Backoff(c)
    \/ \E c \in Calls, got \in {"hit", "miss", "raise"}, fb \in Fallbacks :
          CacheGetDone(c, got, fb)
    \/ \E c \in Calls : Return(c)
    \/ \E n \in Names, ok \in BOOLEAN : OtherCall(n, ok)
    \/ \E n \in Names, k \in Kinds, ok \in BOOLEAN : OtherDone(n, k, ok)
    \/ \E n \in Followed : ResetCircuitBreaker(n)
    \/ \E n \in Names, both \in BOOLEAN : TimeoutElapses(n, both)

Spec == Init /\ [][Next]_vars

\* the registry on its own: configs of any name and thresholds are handed to
\* get_circuit_breaker, the breakers record outcomes, time passes and any
\* name is reset
RegNext ==
    \/ \E n \in Names, fm \in 1 .. MaxFailMax, rt \in RegTimeouts :
          UseConfig(n, fm, rt)
    \/ \E n \in Names, ok \in BOOLEAN : OtherCall(n, ok)
    \/ \E n \in Names : ResetCircuitBreaker(n)
    \/ \E n \in Names, both \in BOOLEAN : TimeoutElapses(n, both)

RegSpec == Init /\ [][RegNext]_vars

\* ------------------------------------------------------ ConversationSession
\* messages are named by their number: the n-th add_message call on a new
\* session adds message n - 1
Numbers(from, to) == [i \in 1 .. (to - from + 1) |-> from + i - 1]

\* ConversationSession(telegram_id=id)
NewSession(id) == [telegram_id |-> id, messages |-> <<>>, message_count |-> 0,
                   well_typed |-> TRUE]

\* the record save_session wrote for id earlier: after 2 messages ("valid"),
\* after 22 messages ("valid_full")
StoredRecord(data, id) ==
    IF data = "valid"
    THEN [telegram_id |-> id, messages |-> Numbers(0, 1), message_count |-> 2,
          well_typed |-> TRUE]
    ELSE [telegram_id |-> id, messages |-> Numbers(2, 21), message_count |-> 22,
          well_typed |-> TRUE]

\* variant: the first 20 messages are kept
AddMessageTo_KeepsOldest(obj, m) ==
    LET ms == Append(obj.messages, m)
    IN  [obj EXCEPT !.messages = IF Len(ms) > MaxHistory
                                 THEN SubSeq(ms, 1, MaxHistory) ELSE ms,
                    !.message_count = @ + 1]

\* ConversationSession.add_message(role, content), m the message added
AddMessageTo(obj, m) ==
    LET ms == Append(obj.messages, m)
    IN  [obj EXCEPT !.messages = IF Len(ms) > MaxHistory
                                 THEN SubSeq(ms, Len(ms) - MaxHistory + 1, Len(ms))
                                 ELSE ms,
                    !.message_count = @ + 1]

\* ConversationSession.from_json(data): json.loads, then cls(**parsed); the
\* dataclass constructor checks the names of the fields, not their types
FromJson(data, id) ==
    CASE data = "malformed" -> [exc |-> "JSONDecodeError", obj |-> NewSession(id)]
      [] data \in {"not_object", "unknown_field", "missing_id"} ->
            [exc |-> "TypeError", obj |-> NewSession(id)]
      [] data = "wrong_types" ->
            [exc |-> "none",
             obj |-> [telegram_id |-> id, messages |-> <<>>, message_count |-> 3,
                      well_typed |-> FALSE]]
      [] OTHER -> [exc |-> "none", obj |-> StoredRecord(data, id)]

\* SessionManager.get_session(telegram_id), data what cache.get returned
\* (None when the key is absent or the store failed)
GetSession(id, data) ==
    /\ session.pc = "none"
    /\ LET r == FromJson(data, id)
           falsy == data \in {"absent", "empty"}
           caught == r.exc \in {"JSONDecodeError", "TypeError"}
       IN  session' = [NoSession EXCEPT
                          !.pc = "held", !.id = id, !.data = data,
                          !.obj = IF falsy \/ r.exc # "none" THEN NewSession(id)
                                  ELSE r.obj,
                          !.raised = IF falsy \/ caught THEN "none" ELSE r.exc]
    /\ UNCHANGED <<resVars, rl, gc, cls, extVars>>

\* session.add_message(...) on the session a handler holds
AddMessage ==
    /\ session.pc = "held" /\ session.raised = "none"
    /\ session.obj.well_typed
    /\ session.added < MaxAdds
    /\ session' = [session EXCEPT
                      !.obj = AddMessageTo(@, session.obj.message_count),
                      !.added = @ + 1]
    /\ UNCHANGED <<resVars, rl, gc, cls, extVars>>

\* the handler is done with the session object
Release ==
    /\ session.pc = "held"
    /\ session' = NoSession
    /\ UNCHANGED <<resVars, rl, gc, cls, extVars>>

SessNext ==
    \/ \E id \in UserIds, data \in Contents : GetSession(id, data)
    \/ AddMessage
    \/ Release

SessSpec == Init /\ [][SessNext]_vars

\* ---------------------------------------------------------- rate limiting
None == -1    \* incr returned None

\* variant: the limit is exclusive
AfterIncr_Exclusive(v, max) ==
    IF v = None
    THEN [allowed |-> TRUE, count |-> 0, expire |-> FALSE]
    ELSE [allowed |-> v < max, count |-> v, expire |-> v = 1]

\* variant: a store fault denies the request
AfterIncr_FailClosed(v, max) ==
    IF v = None
    THEN [allowed |-> FALSE, count |-> 0, expire |-> FALSE]
    ELSE [allowed |-> v <= max, count |-> v, expire |-> v = 1]

\* variant: every call sets the expiry
AfterIncr_ExpireEvery(v, max) ==
    IF v = None
    THEN [allowed |-> TRUE, count |-> 0, expire |-> FALSE]
    ELSE [allowed |-> v <= max, count |-> v, expire |-> TRUE]

\* check_rate_limit after "count = await self._cache.incr(key)" returned v:
\* the tuple it returns and whether it calls expire before
AfterIncr(v, max) ==
    IF v = None
    THEN [allowed |-> TRUE, count |-> 0, expire |-> FALSE]
    ELSE [allowed |-> v <= max, count |-> v, expire |-> v = 1]

\* SessionManager.create(): the backend get_cache returned
Connect(b) ==
    /\ rl.backend = "unset"
    /\ rl' = [rl EXCEPT !.backend = b]
    /\ UNCHANGED <<resVars, session, gc, cls, extVars>>

\* check_rate_limit(id, max, window) up to the return of incr, and to its
\* own return when expire is not called.  MemoryCache.incr counts in
\* _counters and does not look at _data; RedisClient.incr returns None on a
\* RedisError (ok = FALSE).
RateIncr(id, max, ok) ==
    /\ rl.backend # "unset" /\ rl.pc # "expire"
    /\ ok \/ rl.backend = "redis"
    /\ rl.count[id] < MaxCount
    /\ LET v == IF ok THEN rl.count[id] + 1 ELSE None
           r == AfterIncr(v, max)
       IN  rl' = [rl EXCEPT
                     !.count[id] = IF ok THEN v ELSE @,
                     !.due[id] = IF v = 1 THEN "running" ELSE @,
                     !.pc = IF r.expire THEN "expire" ELSE "returned",
                     !.cur = [id |-> id, max |-> max, count |-> r.count,
                              allowed |-> r.allowed, incrValue |-> v,
                              failed |-> ~ok,
                              expireCalled |-> r.expire,
                              wasDue |-> rl.due[id] = "elapsed"]]
    /\ UNCHANGED <<resVars, session, gc, cls, extVars>>

\* "await self._cache.expire(key, window_seconds)" and the return.
\* MemoryCache.expire creates the CacheEntry of the counter with expires_at;
\* RedisClient.expire sets the TTL, or returns False on a RedisError.
RateExpire(ok) ==
    /\ rl.pc = "expire"
    /\ ok \/ rl.backend = "redis"
    /\ rl' = [rl EXCEPT !.ttl[rl.cur.id] = ok, !.pc = "returned"]
    /\ UNCHANGED <<resVars, session, gc, cls, extVars>>

\* window_seconds have passed since the call for id whose increment
\* returned 1: Redis removes a key whose TTL is reached; the CacheEntry of
\* MemoryCache is expired, _counters is not touched by it
WindowElapses(id) ==
    /\ rl.pc # "expire"
    /\ rl.due[id] = "running"
    /\ rl' = [rl EXCEPT
                 !.due[id] = "elapsed",
                 !.ttl[id] = FALSE,
                 !.count[id] = IF rl.backend = "redis" /\ rl.ttl[id] THEN 0 ELSE @]
    /\ UNCHANGED <<resVars, session, gc, cls, extVars>>

RateNext ==
    \/ \E b \in {"memory", "redis"} : Connect(b)
    \/ \E id \in UserIds, max \in MaxRequestsSet, ok \in BOOLEAN : RateIncr(id, max, ok)
    \/ \E ok \in BOOLEAN : RateExpire(ok)
    \/ \E id \in UserIds : WindowElapses(id)

RateSpec == Init /\ [][RateNext]_vars

\* ------------------------------------------------------------- get_cache
\* variant: no second test of _cache_instance under the lock
DoubleCheck_Skipped(g) == FALSE

\* "if _cache_instance is not None:" after acquiring _cache_lock
DoubleCheck(g) == g.instance # 0

\* get_cache returns the installed instance to p
Returns(g, p) ==
    [g EXCEPT !.procs[p].pc = "done", !.procs[p].ret = g.instance,
              !.returned = @ \cup {g.instance}]

\* "_cache_instance = MemoryCache(); return _cache_instance" by the holder p
\* of the lock, which leaves the "async with" block
InstallsMemory(g, p) ==
    Returns([g EXCEPT !.instance = g.made + 1, !.made = @ + 1,
                      !.kind = "memory", !.installs = @ + 1, !.lock = 0], p)

\* "_cache_instance = redis_client; return _cache_instance": the client p
\* constructed is the newest object, nobody else constructs under the lock
InstallsClient(g, p) ==
    Returns([g EXCEPT !.instance = g.made, !.kind = "redis",
                      !.installs = @ + 1, !.lock = 0], p)

\* the process reads settings.use_memory_cache
LoadSettings(b) ==
    /\ ~gc.configured
    /\ gc' = [gc EXCEPT !.configured = TRUE, !.use_memory_cache = b]
    /\ UNCHANGED <<resVars, session, rl, cls, extVars>>

\* get_cache() up to "async with _cache_lock"
GcCall(p) ==
    /\ gc.configured
    /\ gc.procs[p].pc \in {"idle", "done"}
    /\ LET g == [gc EXCEPT !.procs[p].sawUp = gc.up]
       IN  gc' = IF g.instance # 0 THEN Returns(g, p)
                 ELSE [g EXCEPT !.procs[p].pc = "lock", !.procs[p].ret = 0]
    /\ UNCHANGED <<resVars, session, rl, cls, extVars>>

\* p acquires _cache_lock: the second test, the use_memory_cache branch,
\* or on to "await RedisClient.create()"
GcLock(p) ==
    /\ gc.procs[p].pc = "lock" /\ gc.lock = 0
    /\ gc' = IF DoubleCheck(gc) THEN Returns(gc, p)
             ELSE IF gc.use_memory_cache THEN InstallsMemory(gc, p)
             ELSE [gc EXCEPT !.lock = p, !.procs[p].pc = "create"]
    /\ UNCHANGED <<resVars, session, rl, cls, extVars>>

\* RedisClient.create() returns, or raises (caught: MemoryCache installed)
GcCreate(p, ok) ==
    /\ gc.procs[p].pc = "create"
    /\ gc' = IF ok THEN [gc EXCEPT !.procs[p].pc = "ping", !.made = @ + 1]
             ELSE InstallsMemory(gc, p)
    /\ UNCHANGED <<resVars, session, rl, cls, extVars>>

\* "await redis_client.ping()" returns True when the store answers,
\* otherwise False or an exception: the client is dropped and a MemoryCache
\* is installed
GcPing(p) ==
    /\ gc.procs[p].pc = "ping"
    /\ gc' = IF gc.up THEN InstallsClient(gc, p) ELSE InstallsMemory(gc, p)
    /\ UNCHANGED <<resVars, session, rl, cls, extVars>>

\* the primary store becomes unreachable / reachable
StoreFlips ==
    /\ gc.configured
    /\ gc' = [gc EXCEPT !.up = ~@]
    /\ UNCHANGED <<resVars, session, rl, cls, extVars>>

\* reset_cache() up to "await _cache_instance.close()"
ResetCacheStart ==
    /\ gc.instance # 0 /\ ~gc.resetting
    /\ gc.resets < MaxResets
    /\ gc' = [gc EXCEPT !.resetting = TRUE, !.resets = @ + 1]
    /\ UNCHANGED <<resVars, session, rl, cls, extVars>>

\* close() returned: "_cache_instance = None"
ResetCacheEnd ==
    /\ gc.resetting
    /\ gc' = [gc EXCEPT !.resetting = FALSE, !.instance = 0, !.kind = "none",
                        !.installs = 0, !.returned = {}]
    /\ UNCHANGED <<resVars, session, rl, cls, extVars>>

GcNext ==
    \/ \E b \in BOOLEAN : LoadSettings(b)
    \/ \E p \in Procs : GcCall(p)
    \/ \E p \in Procs : GcLock(p)
    \/ \E p \in Procs, ok \in BOOLEAN : GcCreate(p, ok)
    \/ \E p \in Procs : GcPing(p)
    \/ StoreFlips
    \/ ResetCacheStart
    \/ ResetCacheEnd

GcSpec == Init /\ [][GcNext]_vars

\* ------------------------------------------------------ categorize_error
\* An error is seen by categorize_error only through which of these
\* substrings occur in str(error).lower() and in type(error).__name__.lower();
\* no marker is a substring of another, so every combination has a message.
RateMarkers == {"429", "rate limit", "too many"}
ClientMarkers == {"400", "401", "403", "404"}
ConfigMarkers == {"api key", "authentication", "invalid key"}
ServerMarkers == {"500", "502", "503", "504"}
TransientMarkers == {"timeout", "connection", "network", "reset", "refused"}
TypeMarkers == {"timeout", "connection", "network", "http"}

\* substrings a caller's message may hold: those the code looks for and
\* "api_key", which the code does not look for
MessageMarkers ==
    RateMarkers \cup ClientMarkers \cup ConfigMarkers \cup ServerMarkers
        \cup TransientMarkers \cup {"api_key"}

\* "any(term in text for term in terms)"
AnyIn(terms, text) == terms \cap text # {}

\* categorize_error on a message holding the markers m, of a type whose
\* name holds the markers t
CategorizeMarkers(m, t) ==
    IF AnyIn(RateMarkers, m) THEN "rate_limited"
    ELSE IF AnyIn(ClientMarkers, m) THEN "client_error"
    ELSE IF AnyIn(ConfigMarkers, m) THEN "configuration"
    ELSE IF AnyIn(ServerMarkers, m) THEN "server_error"
    ELSE IF AnyIn(TransientMarkers, m) THEN "transient"
    ELSE IF AnyIn(TypeMarkers, t) THEN "transient"
    ELSE "unknown"

\* variant: client errors retried too
ShouldRetry_ClientToo(m, t) ==
    CategorizeMarkers(m, t) \in
        {"transient", "rate_limited", "server_error", "client_error"}

\* should_retry
ShouldRetry(m, t) ==
    CategorizeMarkers(m, t) \in {"transient", "rate_limited", "server_error"}

\* the errors handed in: up to MaxMarkers markers in the message and in the
\* type name
RECURSIVE Upto(_, _)
Upto(S, n) ==
    IF n = 0 THEN {{}}
    ELSE LET U == Upto(S, n - 1) IN U \cup {x \cup {a} : x \in U, a \in S}

\* categorize_error(error) and should_retry(error) are called on one error
Classify ==
    /\ ~cls.done
    /\ \E m \in Upto(MessageMarkers, MaxMarkers),
          t \in Upto(TypeMarkers, MaxMarkers) :
          cls' = [done |-> TRUE, msg |-> m, type |-> t,
                  category |-> CategorizeMarkers(m, t),
                  retry |-> ShouldRetry(m, t)]
    /\ UNCHANGED <<resVars, session, rl, gc, extVars>>

\* the caller drops the error
Forget ==
    /\ cls.done
    /\ cls' = NoError
    /\ UNCHANGED <<resVars, session, rl, gc, extVars>>

ClsNext == Classify \/ Forget

ClsSpec == Init /\ [][ClsNext]_vars

\* --------------------------------------------------------- agent/fallbacks
\* FallbackType
FallbackTypes ==
    {"VISION_UNAVAILABLE", "VISION_RATE_LIMITED", "PHOTO_DOWNLOAD_FAILED",
     "PHOTO_TOO_LARGE", "PHOTO_INVALID_FORMAT", "PLACES_UNAVAILABLE",
     "PLACES_RATE_LIMITED", "PLACES_NO_RESULTS", "LOCATION_REQUIRED",
     "FLIGHTS_UNAVAILABLE", "HOTELS_UNAVAILABLE", "TRAVEL_NOT_CONFIGURED",
     "SESSION_UNAVAILABLE", "CACHE_UNAVAILABLE", "FEATURE_DISABLED",
     "API_KEY_MISSING", "API_KEY_INVALID", "UNKNOWN_ERROR", "TIMEOUT",
     "RATE_LIMITED", "SERVICE_OVERLOADED", "TOOL_EXECUTION_FAILED",
     "TOOL_NOT_FOUND"}

\* the keys of FALLBACKS: every type has an entry
CatalogTypes == FallbackTypes

\* FALLBACKS[t].message: each entry has its own text
CatalogMessage(t) == <<"message of", t>>

\* get_fallback(fallback_type, context, error)
GetFallback(t) ==
    IF t \in CatalogTypes THEN CatalogMessage(t)
    ELSE CatalogMessage("UNKNOWN_ERROR")

\* the substrings categorize_exception looks for in str(error).lower()
ExceptionMarkers ==
    {"timeout", "429", "rate limit", "too many", "401", "403", "unauthorized",
     "api key", "api_key", "503", "502", "service unavailable", "connection",
     "network"}

\* categorize_exception on a message holding the markers m, of a type whose
\* name holds the markers t
CategorizeException(m, t) ==
    IF "timeout" \in m \/ "timeout" \in t THEN "TIMEOUT"
    ELSE IF AnyIn({"429", "rate limit", "too many"}, m) THEN "RATE_LIMITED"
    ELSE IF AnyIn({"401", "403", "unauthorized"}, m) THEN "API_KEY_INVALID"
    ELSE IF AnyIn({"api key", "api_key"}, m) THEN "API_KEY_MISSING"
    ELSE IF AnyIn({"503", "502", "service unavailable"}, m)
        THEN "SERVICE_OVERLOADED"
    ELSE IF AnyIn({"connection", "network"}, m) THEN "UNKNOWN_ERROR"
    ELSE "UNKNOWN_ERROR"

\* variant: the caller's type is always used
ExceptHandler_AlwaysDefault(default, m, t) == GetFallback(default)

\* the except clause of with_fallback: what it returns for an exception
\* with the markers m, t and the caller's fallback_type
ExceptHandler(default, m, t) ==
    LET categorized == CategorizeException(m, t)
    IN  GetFallback(IF categorized # "UNKNOWN_ERROR" THEN categorized
                    ELSE default)

\* with_fallback(coro, fallback_type) up to "await coro"
WfCall(d) ==
    /\ wf.pc = "idle"
    /\ wf' = [NoWf EXCEPT !.pc = "awaiting", !.default = d]
    /\ UNCHANGED <<resVars, cacheVars, cls, mem, js, turn, race>>

\* the coroutine completes: its result is returned
WfOpReturns ==
    /\ wf.pc = "awaiting"
    /\ wf' = [wf EXCEPT !.pc = "done", !.result = <<"value">>]
    /\ UNCHANGED <<resVars, cacheVars, cls, mem, js, turn, race>>

\* the coroutine raises an exception derived from Exception
WfOpRaises(m, t) ==
    /\ wf.pc = "awaiting"
    /\ wf' = [wf EXCEPT !.pc = "done", !.raised = TRUE, !.msg = m, !.type = t,
                        !.result = ExceptHandler(wf.default, m, t)]
    /\ UNCHANGED <<resVars, cacheVars, cls, mem, js, turn, race>>

\* the caller takes what with_fallback returned
WfTake ==
    /\ wf.pc = "done"
    /\ wf' = NoWf
    /\ UNCHANGED <<resVars, cacheVars, cls, mem, js, turn, race>>

WfNext ==
    \/ \E d \in FallbackTypes : WfCall(d)
    \/ WfOpReturns
    \/ \E m \in Upto(ExceptionMarkers, MaxMarkers), t \in Upto({"timeout"}, 1) :
          WfOpRaises(m, t)
    \/ WfTake

WfSpec == Init /\ [][WfNext]_vars

\* ----------------------------------------------------------- bot/handlers
\* One chat turn of one user: handle_message reads the session, runs the
\* agent, whose preference tools read, change and save the session on their
\* own, then adds the two messages of the turn to the session it read and
\* saves it.  Every get_session builds a new object from the stored JSON.
\* the arguments a tool can be called with
ToolArgs(t) ==
    IF t = "update_user_location" THEN {{l} : l \in Locations}
    ELSE IF t = "update_fitness_goals" THEN SUBSET GoalSet \ {{}}
    ELSE SUBSET WorkoutSet \ {{}}

\* SessionManager.get_session: the stored session, or a new one
ReadSession(t) == IF t.stored THEN t.store ELSE EmptySession

\* what handle_message saves: the session object it read before the agent
\* ran, after session.add_message("human", ...) and
\* session.add_message("assistant", ...)
FinalSession(t) == [t.session EXCEPT !.message_count = @ + 2]

\* handle_message up to "await agent.ainvoke(initial_state)"
TurnStart ==
    /\ turn.pc \in {"idle", "saved"}
    /\ turn.turns < MaxTurns
    /\ turn' = [turn EXCEPT !.pc = "agent", !.session = ReadSession(turn),
                            !.saved = NoSaved, !.tools = 0, !.final = FALSE,
                            !.turns = @ + 1]
    /\ UNCHANGED <<resVars, cacheVars, cls, wf, mem, js, race>>

\* the agent calls a preference tool, which reads the session
ToolLoads(t, a) ==
    /\ turn.pc = "agent"
    /\ turn.tools < MaxToolCalls
    /\ turn' = [turn EXCEPT !.pc = "tool", !.tools = @ + 1,
                            !.tool = [name |-> t, arg |-> a,
                                      session |-> ReadSession(turn)]]
    /\ UNCHANGED <<resVars, cacheVars, cls, wf, mem, js, race>>

\* the tool changes its session object and saves it (ok: the store accepts
\* the write); the list tools save only when something is new
ToolSaves(ok) ==
    /\ turn.pc = "tool"
    /\ LET t == turn.tool
           s == t.session
           new == IF t.name = "update_fitness_goals"
                  THEN t.arg \ s.fitness_goals
                  ELSE IF t.name = "update_workout_preferences"
                  THEN t.arg \ s.preferred_workout_types
                  ELSE t.arg
           s1 == IF t.name = "update_user_location"
                 THEN [s EXCEPT !.location = CHOOSE l \in t.arg : TRUE]
                 ELSE IF t.name = "update_fitness_goals"
                 THEN [s EXCEPT !.fitness_goals = @ \cup new]
                 ELSE [s EXCEPT !.preferred_workout_types = @ \cup new]
           saves == (t.name = "update_user_location" \/ new # {}) /\ ok
       IN  turn' = [turn EXCEPT
                      !.pc = "agent", !.tool = NoTool,
                      !.store = IF saves THEN s1 ELSE @,
                      !.stored = @ \/ saves,
                      !.saved = IF ~saves THEN @
                                ELSE IF t.name = "update_user_location"
                                THEN [@ EXCEPT !.location = s1.location]
                                ELSE IF t.name = "update_fitness_goals"
                                THEN [@ EXCEPT !.fitness_goals = @ \cup new]
                                ELSE [@ EXCEPT !.preferred_workout_types = @ \cup new]]
    /\ UNCHANGED <<resVars, cacheVars, cls, wf, mem, js, race>>

\* the agent returns; handle_message adds the two messages and saves
HandlerSaves(ok) ==
    /\ turn.pc = "agent"
    /\ turn' = [turn EXCEPT !.pc = "saved", !.final = ok,
                            !.store = IF ok THEN FinalSession(turn) ELSE @,
                            !.stored = @ \/ ok]
    /\ UNCHANGED <<resVars, cacheVars, cls, wf, mem, js, race>>

TurnNext ==
    \/ TurnStart
    \/ \E t \in PrefTools : \E a \in ToolArgs(t) : ToolLoads(t, a)
    \/ \E ok \in BOOLEAN : ToolSaves(ok)
    \/ \E ok \in BOOLEAN : HandlerSaves(ok)

TurnSpec == Init /\ [][TurnNext]_vars

\* ------------------------------------------------------------ MemoryCache
\* Every method body runs under self._lock, and cleanup_expired has no
\* suspension point, so each is one step.  time.time() is read once per step.

\* variant: an entry outlives its expiry by a second
IsExpired_Late(e, now) == e.has_expiry /\ now > e.expires_at + 1

\* CacheEntry.is_expired
IsExpired(e, now) == e.has_expiry /\ now > e.expires_at

\* CacheEntry(value=value, expires_at=time.time() + ttl_seconds)
Entry(v, now, ttl) == [present |-> TRUE, value |-> v, has_expiry |-> TRUE,
                       expires_at |-> now + ttl]

\* history: the operation just made, what it returned and the entries before it
MemOp(m, op, k, v, ok, n) ==
    [op |-> op, key |-> k, value |-> v, ok |-> ok, n |-> n,
     before |-> m.data, at |-> m.now]

\* get: the value, or None ("-") with the entry deleted if it has expired
MemGet(k) ==
    /\ LET e == mem.data[k]
       IN  IF ~e.present
           THEN mem' = [mem EXCEPT !.last = MemOp(mem, "get", k, "-", FALSE, 0)]
           ELSE IF IsExpired(e, mem.now)
           THEN mem' = [mem EXCEPT !.data[k] = NoEntry,
                                   !.last = MemOp(mem, "get", k, "-", FALSE, 0)]
           ELSE mem' = [mem EXCEPT !.last = MemOp(mem, "get", k, e.value, TRUE, 0)]
    /\ UNCHANGED <<resVars, cacheVars, cls, wf, js, turn, race>>

\* set: "expires_at = time.time() + ttl_seconds if ttl_seconds else None";
\* ttl 0 stands for the falsy arguments 0 and None
MemSet(k, v, ttl) ==
    /\ mem' = [mem EXCEPT
                 !.data[k] = IF ttl = 0
                             THEN [present |-> TRUE, value |-> v,
                                   has_expiry |-> FALSE, expires_at |-> 0]
                             ELSE Entry(v, mem.now, ttl),
                 !.last = MemOp(mem, "set", k, v, TRUE, 0)]
    /\ UNCHANGED <<resVars, cacheVars, cls, wf, js, turn, race>>

\* delete: the entry and the counter of the key
MemDelete(k) ==
    /\ mem' = [mem EXCEPT !.data[k] = NoEntry, !.counters[k] = 0,
                          !.last = MemOp(mem, "delete", k, "-", TRUE, 0)]
    /\ UNCHANGED <<resVars, cacheVars, cls, wf, js, turn, race>>

\* exists: False with the entry deleted if it has expired
MemExists(k) ==
    /\ LET e == mem.data[k]
       IN  IF ~e.present
           THEN mem' = [mem EXCEPT !.last = MemOp(mem, "exists", k, "-", FALSE, 0)]
           ELSE IF IsExpired(e, mem.now)
           THEN mem' = [mem EXCEPT !.data[k] = NoEntry,
                                   !.last = MemOp(mem, "exists", k, "-", FALSE, 0)]
           ELSE mem' = [mem EXCEPT !.last = MemOp(mem, "exists", k, "-", TRUE, 0)]
    /\ UNCHANGED <<resVars, cacheVars, cls, wf, js, turn, race>>

\* incr: the counters are kept apart from the entries
MemIncr(k) ==
    /\ mem.counters[k] < MaxIncr
    /\ mem' = [mem EXCEPT !.counters[k] = @ + 1,
                          !.last = MemOp(mem, "incr", k, "-", TRUE,
                                         mem.counters[k] + 1)]
    /\ UNCHANGED <<resVars, cacheVars, cls, wf, js, turn, race>>

\* expire: a new expiry for the entry at the key, expired or not; for a
\* counter without entry, an entry holding str(count)
MemExpire(k, ttl) ==
    /\ LET e == mem.data[k]
       IN  IF e.present
           THEN mem' = [mem EXCEPT !.data[k] = Entry(e.value, mem.now, ttl),
                                   !.last = MemOp(mem, "expire", k, "-", TRUE, 0)]
           ELSE IF mem.counters[k] > 0
           THEN mem' = [mem EXCEPT !.data[k] = Entry("count", mem.now, ttl),
                                   !.last = MemOp(mem, "expire", k, "-", TRUE, 0)]
           ELSE mem' = [mem EXCEPT !.last = MemOp(mem, "expire", k, "-", FALSE, 0)]
    /\ UNCHANGED <<resVars, cacheVars, cls, wf, js, turn, race>>

\* "if v.expires_at and v.expires_at < now": None and 0.0 are falsy
ExpiredKeys(d, now) ==
    {k \in MemKeys : /\ d[k].present /\ d[k].has_expiry
                     /\ d[k].expires_at # 0 /\ d[k].expires_at < now}

\* cleanup_expired: deletes the expired entries, returns how many
CleanupExpired ==
    /\ LET gone == ExpiredKeys(mem.data, mem.now)
       IN  mem' = [mem EXCEPT
                     !.data = [k \in MemKeys |-> IF k \in gone THEN NoEntry
                                                ELSE mem.data[k]],
                     !.last = MemOp(mem, "cleanup_expired", "-", "-", TRUE,
                                    Cardinality(gone))]
    /\ UNCHANGED <<resVars, cacheVars, cls, wf, js, turn, race>>

\* a second passes
Tick ==
    /\ mem.now < Epoch + MaxTime
    /\ mem' = [mem EXCEPT !.now = @ + 1, !.last = NoMemOp]
    /\ UNCHANGED <<resVars, cacheVars, cls, wf, js, turn, race>>

MemNext ==
    \/ \E k \in MemKeys : MemGet(k)
    \/ \E k \in MemKeys, v \in MemValues, ttl \in MemTtls : MemSet(k, v, ttl)
    \/ \E k \in MemKeys : MemDelete(k)
    \/ \E k \in MemKeys : MemExists(k)
    \/ \E k \in CounterKeys : MemIncr(k)
    \/ \E k \in MemKeys, ttl \in MemTtls : MemExpire(k, ttl)
    \/ CleanupExpired
    \/ Tick

MemSpec == Init /\ [][MemNext]_vars

\* ------------------------------------------------------ to_json / from_json
\* json.dumps writes None as null, str as a string, int as a number, list
\* as an array and dict as an object; json.loads reads them back.  The
\* JSON text is kept as the JSON value it denotes.
RECURSIVE Dumps(_)
Dumps(v) ==
    CASE v.t = "None" -> [t |-> "null", s |-> "", n |-> 0, items |-> <<>>, keys |-> <<>>]
      [] v.t = "str"  -> [v EXCEPT !.t = "string"]
      [] v.t = "int"  -> [v EXCEPT !.t = "number"]
      [] v.t = "list" -> [v EXCEPT !.t = "array",
                                   !.items = [i \in DOMAIN v.items |-> Dumps(v.items[i])]]
      [] v.t = "dict" -> [v EXCEPT !.t = "object",
                                   !.items = [i \in DOMAIN v.items |-> Dumps(v.items[i])]]

RECURSIVE Loads(_)
Loads(j) ==
    CASE j.t = "null"   -> PNone
      [] j.t = "string" -> [j EXCEPT !.t = "str"]
      [] j.t = "number" -> [j EXCEPT !.t = "int"]
      [] j.t = "array"  -> [j EXCEPT !.t = "list",
                                     !.items = [i \in DOMAIN j.items |-> Loads(j.items[i])]]
      [] j.t = "object" -> [j EXCEPT !.t = "dict",
                                     !.items = [i \in DOMAIN j.items |-> Loads(j.items[i])]]

\* to_json: json.dumps(asdict(self)), an object with one member per field
ToJson(s) == [f \in SessionFields |-> Dumps(s[f])]

\* from_json: cls(**json.loads(data))
Restore(text) == [f \in SessionFields |-> Loads(text[f])]

\* what the handlers and tools do to a session they hold
Edits == {"add_message", "location", "fitness_goals", "style_profile", "wardrobe"}

Edited(s, e, k) ==
    CASE e = "add_message" ->
           [s EXCEPT !.messages = PList(Append(@.items,
                          PDict(<<"role", "content", "timestamp">>,
                                <<PStr("human"), PStr("Hello"), PTime(k)>>))),
                     !.message_count = PInt(@.n + 1),
                     !.updated_at = PTime(k)]
      [] e = "location" -> [s EXCEPT !.location = PStr("Austin")]
      [] e = "fitness_goals" ->
           [s EXCEPT !.fitness_goals = PList(Append(@.items, PStr("strength")))]
      [] e = "style_profile" ->
           [s EXCEPT !.style_profile =
               PDict(<<"color_season", "best_colors", "hair_color">>,
                     <<PStr("winter"), PList(<<PStr("navy")>>), PNone>>)]
      [] e = "wardrobe" ->
           [s EXCEPT !.wardrobe = PList(Append(@.items,
                          PDict(<<"item_id", "colors", "notes">>,
                                <<PStr("1f0c"), PList(<<PStr("red")>>), PNone>>)))]

\* SessionManager.get_session; readOk: the store answers the read
\* (RedisClient.get returns None on a RedisError)
JsGet(readOk) ==
    /\ js.pc \in {"none", "saved"}
    /\ js.now < MaxClock
    /\ LET hit == readOk /\ js.store.present
           s == IF hit THEN Restore(js.store.json) ELSE Session(JsUser, js.now)
       IN  js' = [js EXCEPT !.pc = "held", !.s = s, !.got = s, !.edits = 0,
                            !.read = TRUE, !.readOk = readOk, !.now = @ + 1]
    /\ UNCHANGED <<resVars, cacheVars, cls, wf, mem, turn, race>>

\* the holder changes the session
JsEdit(e) ==
    /\ js.pc = "held"
    /\ js.edits < MaxEdits
    /\ js.now < MaxClock
    /\ js' = [js EXCEPT !.s = Edited(@, e, js.now), !.edits = @ + 1,
                        !.now = @ + 1, !.read = FALSE]
    /\ UNCHANGED <<resVars, cacheVars, cls, wf, mem, turn, race>>

\* SessionManager.save_session: stamps updated_at, writes to_json();
\* ok: the store accepts the write
JsSave(ok) ==
    /\ js.pc = "held"
    /\ js.now < MaxClock
    /\ LET s == [js.s EXCEPT !.updated_at = PTime(js.now)]
       IN  js' = [js EXCEPT !.pc = IF ok THEN "saved" ELSE "held",
                            !.s = s, !.now = @ + 1,
                            !.store = IF ok THEN [present |-> TRUE, json |-> ToJson(s)]
                                      ELSE @,
                            !.saved = IF ok THEN s ELSE @,
                            !.fresh = @ \/ ok,
                            !.read = FALSE]
    /\ UNCHANGED <<resVars, cacheVars, cls, wf, mem, turn, race>>

\* the key is deleted (delete_session) or its TTL runs out
JsGone ==
    /\ js.pc = "saved"
    /\ js.store.present
    /\ js' = [js EXCEPT !.store = [present |-> FALSE, json |-> PNone],
                        !.fresh = FALSE, !.read = FALSE, !.pc = "none"]
    /\ UNCHANGED <<resVars, cacheVars, cls, wf, mem, turn, race>>

JsNext ==
    \/ \E readOk \in BOOLEAN : JsGet(readOk)
    \/ \E e \in Edits : JsEdit(e)
    \/ \E ok \in BOOLEAN : JsSave(ok)
    \/ JsGone

JsSpec == Init /\ [][JsNext]_vars

\* ------------------------------------------- concurrent check_rate_limit
\* check_rate_limit suspends twice, in "await self._cache.incr(key)" and in
\* "await self._cache.expire(key, window_seconds)"; each store call is
\* atomic, and other coroutines run between the two.

\* SessionManager.create(): the backend get_cache returned
RaceConnect(b) ==
    /\ race.backend = "unset"
    /\ race' = [race EXCEPT !.backend = b]
    /\ UNCHANGED <<resVars, cacheVars, cls, wf, mem, js, turn>>

\* coroutine p calls check_rate_limit for the user and its incr returns
\* (None on a RedisError, ok = FALSE); without an expire call it returns
RaceIncr(p, max, ok) ==
    /\ race.backend # "unset"
    /\ race.procs[p].pc = "idle"
    /\ ok \/ race.backend = "redis"
    /\ race.count < MaxCount
    /\ LET v == IF ok THEN race.count + 1 ELSE None
           r == AfterIncr(v, max)
       IN  race' = [race EXCEPT
                      !.count = IF ok THEN v ELSE @,
                      !.procs[p] = [pc |-> IF r.expire THEN "expire" ELSE "returned",
                                    v |-> v],
                      !.overlap = @ \/ (ok /\ \E q \in Procs \ {p} :
                                                race.procs[q].pc = "expire")]
    /\ UNCHANGED <<resVars, cacheVars, cls, wf, mem, js, turn>>

\* the expire call of coroutine p: MemoryCache.expire creates the
\* CacheEntry of the counter; RedisClient.expire sets the TTL of the key,
\* or returns False on a RedisError (ok = FALSE); check_rate_limit ignores
\* what it returns
RaceExpire(p, ok) ==
    /\ race.procs[p].pc = "expire"
    /\ ok \/ race.backend = "redis"
    /\ race' = [race EXCEPT !.ttl = @ \/ ok,
                            !.sets = IF ok THEN @ + 1 ELSE @,
                            !.failed = @ \/ ~ok,
                            !.procs[p].pc = "returned"]
    /\ UNCHANGED <<resVars, cacheVars, cls, wf, mem, js, turn>>

\* the caller of coroutine p takes the tuple
RaceReturn(p) ==
    /\ race.procs[p].pc = "returned"
    /\ race' = [race EXCEPT !.procs[p] = IdleCheck]
    /\ UNCHANGED <<resVars, cacheVars, cls, wf, mem, js, turn>>

\* the expiry is reached: Redis removes the key, and the next increment
\* starts a new counter; the CacheEntry of MemoryCache is expired, its
\* _counters entry stays
RaceWindowElapses ==
    /\ race.ttl
    /\ race' = IF race.backend = "redis"
               THEN [race EXCEPT !.count = 0, !.ttl = FALSE, !.sets = 0,
                                 !.failed = FALSE, !.overlap = FALSE]
               ELSE [race EXCEPT !.ttl = FALSE]
    /\ UNCHANGED <<resVars, cacheVars, cls, wf, mem, js, turn>>

RaceNext ==
    \/ \E b \in {"memory", "redis"} : RaceConnect(b)
    \/ \E p \in Procs, max \in MaxRequestsSet, ok \in BOOLEAN : RaceIncr(p, max, ok)
    \/ \E p \in Procs, ok \in BOOLEAN : RaceExpire(p, ok)
    \/ \E p \in Procs : RaceReturn(p)
    \/ RaceWindowElapses

RaceSpec == Init /\ [][RaceNext]_vars

\* ------------------------------------------------------------ properties
Done(c) == call[c].pc = "done"
\* an invocation of the operation returned its value within the timeout
Live(c) == call[c].opCalls > call[c].raised + call[c].timeouts
\* every invocation of the operation raised
AlwaysRaises(c) == call[c].opCalls = call[c].raised
\* the failed invocations that preceded the one that returned
Failed(c) == call[c].raised + call[c].timeouts

\* C1: every resilient_call ends by returning a ResilienceResult; no
\* exception of the operation, a timeout, the breaker, cache_get, cache_set
\* or a fallback producer reaches the caller.
C1_NeverRaises == \A c \in Calls : call[c].escaped = "none"

C1_Witness ==
    \E c \in Calls : /\ Done(c)
                     /\ call[c].raised > 0 /\ call[c].rejected > 0
                     /\ call[c].cache = "raise"
                     /\ call[c].fb = "producer_raises"

C1_WitnessTimeout ==
    \E c \in Calls : /\ Done(c) /\ call[c].timeouts > 0
                     /\ call[c].result.error = "Call timed out"

C1_WitnessCacheSet ==
    \E c \in Calls : Done(c) /\ call[c].cacheSet = "raise"

\* C2: once circuit_fail_max consecutive invocations of the operation for a
\* name have failed, a resilient_call for that name that starts before
\* circuit_reset_timeout has elapsed returns without invoking the operation.
C2_OpenRejectsCalls ==
    \A c \in Calls : Done(c) /\ call[c].tripped => call[c].opCalls = 0

\* C3: a resilient_call that starts when the breaker is OPEN and the reset
\* timeout has elapsed invokes the operation once as a probe; when the probe
\* returns the breaker is CLOSED and the call returns the live value, when
\* it fails the breaker is OPEN again.
C3_ProbeAfterTimeout ==
    \A c \in Calls :
        Done(c) /\ call[c].entryState = "open" /\ call[c].entryElapsed
        => /\ call[c].opCalls = 1
           /\ Live(c) => /\ brk[call[c].name].state = "closed"
                         /\ call[c].result.success
                         /\ call[c].result.value = "live"
           /\ ~Live(c) => brk[call[c].name].state = "open"

C4_WitnessRejected ==
    \E c \in Calls : /\ Done(c) /\ call[c].entryState = "closed"
                     /\ AlwaysRaises(c) /\ call[c].timeouts = 0
                     /\ call[c].rejected > 0 /\ call[c].raised > 0

\* C5 as stated: the operation fails on its first k invocations and then
\* returns, k < retry_attempts, the circuit closed with no recorded failures
\* at entry and fail_max > k: the call returns success with the live value,
\* attempts = k + 1, from_cache = false and from_fallback = false.
C5_Original ==
    \A c \in Calls :
        /\ Done(c) /\ call[c].entryState = "closed" /\ call[c].entryCounter = 0
        /\ Failed(c) < call[c].retry_attempts
        /\ call[c].entryFailMax > Failed(c)
        => /\ Live(c)
           /\ call[c].result.success /\ call[c].result.value = "live"
           /\ call[c].result.attempts = Failed(c) + 1
           /\ ~call[c].result.from_cache /\ ~call[c].result.from_fallback

\* C5 amended: the same, provided nothing else records an outcome on the
\* breaker of the name during the call, and with fail_max the threshold of
\* the breaker.
C5_Amended ==
    \A c \in Calls :
        /\ Done(c) /\ call[c].entryState = "closed" /\ call[c].entryCounter = 0
        /\ Failed(c) < call[c].retry_attempts
        /\ call[c].entryFailMax > Failed(c)
        /\ call[c].alone
        => /\ Live(c)
           /\ call[c].result.success /\ call[c].result.value = "live"
           /\ call[c].result.attempts = Failed(c) + 1
           /\ ~call[c].result.from_cache /\ ~call[c].result.from_fallback

C5_Witness ==
    \E c \in Calls : /\ Done(c) /\ call[c].entryState = "closed"
                     /\ call[c].entryCounter = 0 /\ call[c].alone
                     /\ call[c].raised = 1 /\ call[c].timeouts = 0 /\ Live(c)
                     /\ call[c].entryFailMax = 2
                     /\ call[c].result.attempts = 2

\* C6: no attempt succeeds, no cache hit occurs and a fallback is supplied
\* (a static value, or a producer that returns): the call returns success,
\* from_fallback = true, from_cache = false and the static value or the
\* producer's return value; the producer is invoked exactly once.
C6_FallbackResult ==
    \A c \in Calls :
        Done(c) /\ ~Live(c) /\ call[c].cache # "hit"
                /\ call[c].fb \in {"static", "producer"}
        => /\ call[c].result.success
           /\ call[c].result.from_fallback
           /\ ~call[c].result.from_cache
           /\ call[c].result.value =
                  (IF call[c].fb = "static" THEN "fallback" ELSE "produced")
           /\ call[c].produced = (IF call[c].fb = "producer" THEN 1 ELSE 0)

C6_Witness ==
    \E c \in Calls : /\ Done(c) /\ ~Live(c) /\ call[c].raised > 0
                     /\ call[c].cache = "miss" /\ call[c].fb = "producer"
                     /\ call[c].produced = 1
                     /\ call[c].result.value = "produced"

\* C7: the live call does not succeed (circuit open at entry, attempts
\* exhausted, or rejection by the breaker) and cache_get returns a value:
\* the call returns success, from_cache = true, from_fallback = false and
\* the cached value, with or without a fallback; no producer is invoked.
C7_CachePrecedence ==
    \A c \in Calls :
        Done(c) /\ ~Live(c) /\ call[c].cache = "hit"
        => /\ call[c].result.success
           /\ call[c].result.from_cache
           /\ ~call[c].result.from_fallback
           /\ call[c].result.value = "cached"
           /\ call[c].produced = 0

C7_Witness ==
    \E c \in Calls : /\ Done(c) /\ call[c].entryState = "open"
                     /\ call[c].cache = "hit" /\ call[c].fb = "producer"
                     /\ call[c].result.from_cache

C7_WitnessExhausted ==
    \E c \in Calls : /\ Done(c) /\ call[c].raised = call[c].retry_attempts
                     /\ call[c].cache = "hit" /\ call[c].fb = "static"
                     /\ call[c].result.from_cache

\* C8: a result with success = true has exactly one origin: from_cache and
\* from_fallback are never both true, and both are false exactly when the
\* value was returned by the operation during this call.
C8_OneOrigin ==
    \A c \in Calls :
        Done(c) /\ call[c].result.success
        => /\ ~(call[c].result.from_cache /\ call[c].result.from_fallback)
           /\ (~call[c].result.from_cache /\ ~call[c].result.from_fallback)
              <=> (Live(c) /\ call[c].result.value = "live")

C8_Witness ==
    \E c \in Calls : /\ Done(c) /\ call[c].result.success
                     /\ call[c].result.from_fallback /\ call[c].raised > 0

C8_WitnessLive ==
    \E c \in Calls : /\ Done(c) /\ call[c].result.success /\ Live(c)
                     /\ call[c].raised > 0

\* C9: in every returned result the error message and the error category
\* are present if and only if success = false.
C9_ErrorIffFailed ==
    \A c \in Calls :
        Done(c) => /\ (call[c].result.error # "none") <=> ~call[c].result.success
                   /\ (call[c].result.error_category # "none")
                      <=> ~call[c].result.success

\* C10: once an attempt of a call is rejected by the breaker (also the
\* attempt whose failure opens it), no further attempt is started, the
\* attempt counter does not advance, no further rate-limiter token is
\* acquired and no backoff wait is taken.
C10_RejectionEndsLoop ==
    \A c \in Calls :
        call[c].firstCbe > 0
        => /\ call[c].attempts = call[c].firstCbe
           /\ call[c].acquires = call[c].firstCbe
           /\ call[c].waits = call[c].firstCbe - 1
           /\ call[c].pc \notin {"sleep", "acquire", "op"}

\* C11: an attempt that exceeds config.timeout_seconds consumes one of the
\* retry_attempts and increments the failure count of the breaker, so that
\* fail_max consecutive timed-out attempts open the circuit.
C11_TimeoutCounted ==
    \A c \in Calls :
        /\ Done(c) /\ call[c].entryState = "closed" /\ call[c].alone
        /\ call[c].raised = 0 /\ ~Live(c) /\ call[c].timeouts > 0
        => /\ call[c].acquires = call[c].timeouts + call[c].rejected
           /\ IF call[c].entryCounter + call[c].timeouts >= call[c].entryFailMax
              THEN brk[call[c].name].state = "open"
              ELSE brk[call[c].name].counter
                       = call[c].entryCounter + call[c].timeouts

\* the resilient_call a decorated function makes: func, config, args,
\* kwargs and fallback, no cache callables
Decorated(c) == Done(c) /\ call[c].cache = "off" /\ call[c].cacheSet = "off"

\* C12: a function wrapped by the resilient decorator returns the
\* operation's value when the call succeeds, the fallback value when the
\* operation fails and a fallback is configured, and raises RuntimeError if
\* and only if the resilient_call result has success = false; no other
\* exception reaches the caller.
C12_Decorator ==
    \A c \in Calls :
        Decorated(c)
        => LET o == Wrapper(call[c].result)
           IN  /\ call[c].escaped = "none"
               /\ Live(c) => o.raises = "none" /\ o.returns = "live"
               /\ (~Live(c) /\ call[c].fb \in {"static", "producer"})
                  => /\ o.raises = "none"
                     /\ o.returns = (IF call[c].fb = "static" THEN "fallback"
                                     ELSE "produced")
               /\ (o.raises = "RuntimeError") <=> ~call[c].result.success
               /\ o.raises \in {"none", "RuntimeError"}

C12_Witness ==
    \E c \in Calls : /\ Decorated(c) /\ call[c].raised > 0 /\ ~Live(c)
                     /\ call[c].fb = "none"
                     /\ Wrapper(call[c].result).raises = "RuntimeError"
                     /\ Wrapper(call[c].result).message = "400 Bad Request"

C12_WitnessFallback ==
    \E c \in Calls : /\ Decorated(c) /\ call[c].raised > 0 /\ ~Live(c)
                     /\ call[c].fb = "producer"
                     /\ Wrapper(call[c].result).returns = "produced"

\* the session object was constructed by get_session, not read from the store
Fresh == session.pc = "held" /\ session.raised = "none"
         /\ session.data \notin ValidContents \cup {"wrong_types"}

Min(a, b) == IF a < b THEN a ELSE b

\* C13: after n add_message calls on a new session, messages holds the last
\* min(n, 20) messages in the order they were added, len(messages) <= 20
\* and message_count = n >= len(messages); with n = 25 the stored messages
\* are numbers 5 to 24.
C13_LastTwenty ==
    Fresh => LET n == session.added
                 k == Min(n, 20)
             IN  /\ session.obj.messages = Numbers(n - k, n - 1)
                 /\ Len(session.obj.messages) <= 20
                 /\ session.obj.message_count = n
                 /\ n >= Len(session.obj.messages)
                 /\ n = 25 => /\ session.obj.messages = Numbers(5, 24)
                              /\ session.obj.message_count = 25

C13_Witness ==
    /\ Fresh /\ session.added = 25
    /\ Len(session.obj.messages) = 20
    /\ session.obj.messages[1] = 5 /\ session.obj.messages[20] = 24

\* C17: whatever session:{id} holds (absent, empty, malformed JSON, JSON
\* that does not match the session shape, a valid record), get_session(id)
\* returns without raising: the deserialized record on a valid hit,
\* otherwise a new session with telegram_id = id, empty history and
\* message_count 0; it never writes to the store.
C17_GetSessionTotal ==
    (session.pc = "held" /\ session.added = 0)
    => /\ session.raised = "none"
       /\ session.obj = IF session.data \in ValidContents
                        THEN StoredRecord(session.data, session.id)
                        ELSE NewSession(session.id)
       /\ session.writes = 0

\* C14: check_rate_limit returns (allowed, count) with count the value the
\* store's increment returned and allowed = (count <= max_requests): with
\* max_requests = 30, counts 1..30 are allowed and count 31 is denied.
C14_AllowedIffWithinLimit ==
    (rl.pc = "returned" /\ ~rl.cur.failed)
    => /\ rl.cur.count = rl.cur.incrValue
       /\ rl.cur.allowed <=> (rl.cur.count <= rl.cur.max)
       /\ rl.cur.max = 30 => (rl.cur.allowed <=> rl.cur.count \in 1 .. 30)

C14_Witness ==
    /\ rl.pc = "returned" /\ rl.cur.max = 30 /\ rl.cur.count = 31
    /\ ~rl.cur.allowed

C14_WitnessAllowed ==
    /\ rl.pc = "returned" /\ rl.cur.max = 30 /\ rl.cur.count = 30
    /\ rl.cur.allowed

\* C15: whenever the store's increment reports failure, check_rate_limit
\* returns (allowed = true, count = 0) and does not call expire, for every
\* max_requests.
C15_FailOpen ==
    (rl.pc \in {"returned", "expire"} /\ rl.cur.failed)
    => /\ rl.cur.allowed /\ rl.cur.count = 0
       /\ ~rl.cur.expireCalled /\ rl.pc = "returned"

C15_Witness ==
    /\ rl.pc = "returned" /\ rl.cur.failed /\ rl.cur.max = 1
    /\ rl.count[rl.cur.id] >= 1 /\ rl.cur.allowed

\* C16: on either backend the counter rate:{id} has a TTL equal to the
\* window: once the window has elapsed since the call whose increment
\* returned 1, the next check_rate_limit(id) returns count = 1 and
\* allowed = true.
C16_CounterExpires ==
    (rl.pc \in {"returned", "expire"} /\ rl.cur.wasDue /\ ~rl.cur.failed)
    => rl.cur.count = 1 /\ rl.cur.allowed

\* C18: get_cache is memoized: under any interleaving of concurrent first
\* calls exactly one instance becomes the process's backend (a primary
\* client whose ping fails is a probe that is dropped, never a backend) and
\* every call, concurrent or later, returns that instance; once the
\* in-process backend is installed get_cache keeps returning it even when
\* the primary store is reachable, until reset_cache.
C18_Memoized ==
    /\ gc.installs <= 1
    /\ Cardinality(gc.returned) <= 1
    /\ gc.returned # {} => gc.returned = {gc.instance}
    /\ (gc.instance # 0) <=> (gc.installs = 1)
    /\ \A p \in Procs : gc.procs[p].pc \in {"create", "ping"} => gc.lock = p

C18_Witness ==
    /\ ~gc.use_memory_cache /\ gc.kind = "memory" /\ gc.up /\ gc.resets = 0
    /\ \A p \in Procs : /\ gc.procs[p].pc = "done"
                        /\ gc.procs[p].ret = gc.instance
    /\ \E p \in Procs : gc.procs[p].sawUp

\* the classifier the description gives: the same order of checks, with
\* "api_key" among the configuration markers
ReferenceClassifier(m, t) ==
    IF AnyIn({"429", "rate limit", "too many"}, m) THEN "rate_limited"
    ELSE IF AnyIn({"400", "401", "403", "404"}, m) THEN "client_error"
    ELSE IF AnyIn({"api key", "api_key", "authentication", "invalid key"}, m)
        THEN "configuration"
    ELSE IF AnyIn({"500", "502", "503", "504"}, m) THEN "server_error"
    ELSE IF AnyIn({"timeout", "connection", "network", "reset", "refused"}, m)
        THEN "transient"
    ELSE IF AnyIn({"timeout", "connection", "network", "http"}, t)
        THEN "transient"
    ELSE "unknown"

\* C19: categorize_error equals the reference classifier on every
\* combination of markers: the category of the first matching check in the
\* order rate-limited, client error, configuration, server error, transient,
\* else unknown; "api_key" alone is a configuration error, "401" with
\* "timeout" a client error.
C19_EqualsReference ==
    cls.done => cls.category = ReferenceClassifier(cls.msg, cls.type)

\* C20: should_retry(e) is true exactly when categorize_error(e) is
\* transient, rate-limited or a server error, and false for client errors,
\* configuration errors and unknown errors.
C20_RetryIffRetryable ==
    cls.done =>
        /\ cls.category \in {"transient", "rate_limited", "server_error",
                             "client_error", "configuration", "unknown"}
        /\ cls.retry <=>
               cls.category \in {"transient", "rate_limited", "server_error"}
        /\ cls.category \in {"client_error", "configuration", "unknown"}
               => ~cls.retry

C20_Witness ==
    /\ cls.done /\ cls.retry
    /\ cls.category = "server_error" /\ "timeout" \in cls.msg

C20_WitnessNoRetry ==
    cls.done /\ ~cls.retry /\ cls.msg = {"401", "timeout"}

\* C25: in the result of every call that entered the retry loop, attempts
\* equals the number of attempts the loop started during the call, on every
\* exit path: success, exhaustion of retry_attempts and rejection by the
\* breaker.
C25_AttemptsCounted ==
    \A c \in Calls :
        Done(c) /\ call[c].entryState # "open"
        => call[c].result.attempts = call[c].attempts

\* C24: on a successful attempt cache_set is called exactly once if and only
\* if cache_set and cache_key are supplied and cache_ttl_seconds > 0; it is
\* never called on a failed attempt; an exception raised by cache_set leaves
\* the returned result unchanged (success with the live value) and starts
\* no further attempt.
C24_CacheSetOnSuccess ==
    \A c \in Calls :
        /\ Done(c) /\ Live(c)
           => (call[c].cacheSet \in {"ok", "raise"}
                 <=> /\ call[c].setInput.cache_set /\ call[c].setInput.cache_key
                     /\ call[c].setInput.ttl > 0)
        /\ ~Live(c) => call[c].cacheSet = "off" /\ call[c].pc # "cache_set"
        /\ Done(c) /\ call[c].cacheSet = "raise"
           => /\ call[c].result.success /\ call[c].result.value = "live"
              /\ call[c].escaped = "none"
              /\ ~call[c].result.from_cache /\ ~call[c].result.from_fallback
              /\ call[c].acquires = call[c].attempts
              /\ call[c].opCalls = Failed(c) + 1

C24_Witness ==
    \E c \in Calls : /\ Done(c) /\ Live(c) /\ call[c].cacheSet = "raise"
                     /\ call[c].setInput.ttl = 300 /\ call[c].raised = 1

C24_WitnessNoTtl ==
    \E c \in Calls : /\ Done(c) /\ Live(c) /\ call[c].cacheSet = "off"
                     /\ call[c].setInput.cache_set /\ call[c].setInput.cache_key
                     /\ call[c].setInput.ttl = 0

\* C26: another attempt follows a failed one only when the failure is
\* retry-eligible (transient, rate-limited or server error); after a client
\* or configuration error no further attempt is started.
C26_RetryOnlyEligible ==
    \A c \in Calls :
        call[c].pc = "sleep" /\ call[c].lastExc \in OpErrors
        => CategorizeError(call[c].lastExc)
               \in {"transient", "rate_limited", "server_error"}

\* C22: reset_circuit_breaker(name) returns true for a registered name and
\* replaces its breaker by one that is CLOSED with zero recorded failures,
\* so that the next resilient_call for the name invokes the operation (when
\* nothing else records on the breaker meanwhile); for a name without
\* breaker it returns false and leaves the registry as it was.
C22_ResetBreaker ==
    /\ adm.op = "reset" =>
          IF adm.before[adm.name].state # "absent"
          THEN /\ adm.returned
               /\ brk[adm.name].state = "closed" /\ brk[adm.name].counter = 0
               /\ \A n \in Names \ {adm.name} : brk[n] = adm.before[n]
          ELSE /\ ~adm.returned
               /\ brk = adm.before
    /\ \A c \in Calls :
          call[c].afterReset =>
             /\ call[c].entryState = "closed" /\ call[c].entryCounter = 0
             /\ (call[c].alone /\ (call[c].acquires > 0 \/ Done(c))
                   => call[c].opCalls >= 1)

C22_Witness ==
    \E c \in Calls : /\ Done(c) /\ call[c].afterReset /\ call[c].alone
                     /\ call[c].opCalls >= 1 /\ Live(c)

C22_WitnessReset ==
    /\ adm.op = "reset" /\ adm.returned
    /\ adm.before[adm.name].state = "open" /\ adm.before[adm.name].counter > 0

C22_WitnessAbsent ==
    adm.op = "reset" /\ ~adm.returned /\ brk[adm.name].state = "absent"

\* C30: the thresholds of a service's breaker are fixed by the registry:
\* get_circuit_breaker gives a new breaker the values of the config it is
\* first called with and leaves a registered breaker as it is whatever the
\* config; reset_circuit_breaker gives the breaker the values of the table
\* entry of the name, or the ServiceConfig defaults 5 and 30 for a name
\* outside the table; nothing else changes a breaker's thresholds.
C30_RegistryFixesThresholds ==
    [][\A n \in Names :
        /\ (adm'.op = "get" /\ adm'.name = n) =>
              brk'[n] = IF brk[n].state = "absent"
                        THEN NewBreaker(adm'.fm, adm'.rt) ELSE brk[n]
        /\ (adm'.op = "reset" /\ adm'.name = n /\ brk[n].state # "absent") =>
              /\ brk'[n].fail_max =
                    (IF n \in TableNames THEN SettingsFailMax ELSE 5)
              /\ brk'[n].reset_timeout = 30
        /\ (brk[n].state # "absent" /\ ~(adm'.op = "reset" /\ adm'.name = n)) =>
              /\ brk'[n].fail_max = brk[n].fail_max
              /\ brk'[n].reset_timeout = brk[n].reset_timeout
        /\ (brk[n].state = "absent" /\ ~(adm'.op = "get" /\ adm'.name = n)) =>
              brk'[n].state = "absent"
      ]_vars

C30_Witness ==
    /\ adm.op = "get" /\ adm.before[adm.name].state = "open"
    /\ adm.fm # brk[adm.name].fail_max /\ adm.rt # brk[adm.name].reset_timeout
    /\ brk[adm.name].fail_max # SettingsFailMax

C30_WitnessReset ==
    /\ adm.op = "reset" /\ adm.name = "custom" /\ adm.returned
    /\ adm.before["custom"].fail_max # brk["custom"].fail_max
    /\ brk["custom"].fail_max = 5

\* C21: with_fallback returns the operation's result when it completes; when
\* the operation raises an exception e it propagates nothing and returns the
\* catalog message of type t, t = categorize_exception(e) if that is not
\* UNKNOWN_ERROR and t = the caller's default type otherwise.
C21_WithFallback ==
    wf.pc = "done" =>
        /\ wf.escaped = "none"
        /\ ~wf.raised => wf.result = <<"value">>
        /\ wf.raised =>
              LET t == IF CategorizeException(wf.msg, wf.type) # "UNKNOWN_ERROR"
                       THEN CategorizeException(wf.msg, wf.type)
                       ELSE wf.default
              IN  wf.result = CatalogMessage(t)

C21_Witness ==
    /\ wf.pc = "done" /\ wf.raised /\ wf.default = "TOOL_EXECUTION_FAILED"
    /\ wf.msg = {"429", "connection"}
    /\ wf.result = CatalogMessage("RATE_LIMITED")

C21_WitnessDefault ==
    /\ wf.pc = "done" /\ wf.raised /\ wf.default = "TOOL_EXECUTION_FAILED"
    /\ wf.msg = {"connection"}
    /\ wf.result = CatalogMessage("TOOL_EXECUTION_FAILED")

\* C28: a preference that a tool saved during a chat turn is still in the
\* stored session after handle_message has saved the session at the end of
\* that turn.
C28_PreferenceKept ==
    turn.pc = "saved" /\ turn.final =>
        /\ turn.saved.location # "-" => turn.store.location = turn.saved.location
        /\ turn.saved.fitness_goals \subseteq turn.store.fitness_goals
        /\ turn.saved.preferred_workout_types
               \subseteq turn.store.preferred_workout_types

\* the expiry time of entry e has passed at time t
Passed(e, t) == e.present /\ e.has_expiry /\ e.expires_at < t

C27_WitnessSweep ==
    /\ mem.last.op = "cleanup_expired" /\ mem.last.n = 1
    /\ \E k \in MemKeys : mem.data[k].present

\* C23: from_json(to_json(s)) equals s in every field, for every session a
\* handler holds; and a get_session that follows a save_session that
\* succeeded, with no other write, delete or expiry in between, returns a
\* session equal to the one saved, as the save stamped it.
C23_RoundTrip ==
    /\ js.pc # "none" => Restore(ToJson(js.s)) = js.s
    /\ js.read /\ js.fresh => js.got = js.saved

\* every check_rate_limit call for the user has returned
RaceOver == \A p \in Procs : race.procs[p].pc \in {"idle", "returned"}

C29_WitnessOnce ==
    RaceOver /\ race.overlap /\ race.count = 2 /\ race.sets = 1

====
